---------------------------- MODULE Spec2Model ----------------------------
(***************************************************************************)
(* A model of the interview-topics repository: the two storage clients     *)
(* (MongoDBClient, FirebaseClient), the topic validator and the retrying   *)
(* generation call of InterviewTopicsAgent.                                *)
(*                                                                         *)
(* Python values whose type the code inspects are tagged records           *)
(* [t |-> <type>, v |-> <value>]; dictionaries are functions from their    *)
(* keys, so that a missing key is a key outside DOMAIN.                    *)
(***************************************************************************)
EXTENDS Integers, Sequences, FiniteSets, TLC

VARIABLES
    backend,        \* which storage client class the instance is: "mongo" | "firebase"
    mongoDocs,      \* the MongoDB collection "topics": documents in natural order
    mongoIndex,     \* whether the collection carries the indexes of _ensure_indexes
    clock,          \* the time: read by datetime.now and by the ObjectId generator
    fireDocs,       \* the Firestore collection "topics": document id -> fields
    fbApps,         \* firebase_admin._apps holds the default app
    client,         \* per client instance: [handle, connected]
    everConnected,  \* per client instance: some connect() has completed successfully
    ret,            \* per client instance: the outcome of its last call
    insPc,          \* per client instance: position inside an insert in flight
    insDoc,         \* per client instance: the document of the insert in flight
    agent,          \* the InterviewTopicsAgent instance: [initialized, model]
    llm,            \* what the next calls of model.generate_content will do, in order
    candidates,     \* the candidate records the model's answer holds
    requested,      \* the number of topics asked for (num_topics, expected_count)
    agentRet,       \* the outcome of the last call of generate_topics
    valRet,         \* the outcome of the last direct call of _validate_topics
    rawText,        \* the text handed to a direct call of _parse_response
    parseRet,       \* the outcome of the last direct call of _parse_response
    env,            \* os.environ: variable name -> value, unset names left out
    facRet          \* the outcome of the last call of DatabaseFactory

storeVars == <<backend, mongoDocs, mongoIndex, clock, fireDocs, fbApps,
               client, everConnected, ret, insPc, insDoc>>

agentVars == <<agent, llm, candidates, requested, agentRet, valRet, rawText, parseRet>>

factoryVars == <<env, facRet>>

vars == <<storeVars, agentVars, factoryVars>>

-----------------------------------------------------------------------------
(* Bounds of the model *)

\* the clock stops here: the most inserts that get as far as reading the time
MaxClock == 2

-----------------------------------------------------------------------------
(* Python values *)

PyNone == [t |-> "none"]
PyStr(s) == [t |-> "str", v |-> s]
PyList(s) == [t |-> "list", v |-> s]
PyDoc(d) == [t |-> "doc", v |-> d]

\* dict[key] = value on a dictionary
DictSet(d, key, value) == (key :> value) @@ d

\* the dictionary without one key
DictDel(d, key) == [k \in (DOMAIN d) \ {key} |-> d[k]]

Max(a, b) == IF a >= b THEN a ELSE b
Min(a, b) == IF a <= b THEN a ELSE b


-----------------------------------------------------------------------------
(* Run documents handed to insert_topics_document *)

RunIds == {"r1", "r2"}

DocTopic(c, d) ==
    [title |-> "title", category |-> c, difficulty |-> d, description |-> "text"]

\* the generation time and the topics of run documents: one topic; two topics that
\* share no tag; one topic, generated at the same time as the two
Generations ==
    { <<1, <<DocTopic("system_design", "senior")>> >>,
      <<2, <<DocTopic("system_design", "junior"), DocTopic("behavioral", "senior")>> >>,
      <<2, <<DocTopic("behavioral", "junior")>> >> }

BaseDoc(r, g, tl) ==
    [runId |-> r, generatedAt |-> g, model |-> "gemini-pro", topics |-> PyList(tl)]

ValidDocs == { BaseDoc(r, gen[1], gen[2]) : r \in RunIds, gen \in Generations }

\* a document in which the caller has already put a _metadata block
CallerMetadata == [insertedAt |-> 0, version |-> "0.0.0", source |-> "caller"]
StampedDocs ==
    { DictSet(BaseDoc(r, 1, <<DocTopic("system_design", "senior")>>),
              "_metadata", CallerMetadata) : r \in RunIds }

SampleDoc == BaseDoc("r1", 1, <<DocTopic("system_design", "senior")>>)

\* documents that break one rule of _validate_document each
InvalidDocs ==
    { DictDel(SampleDoc, f) : f \in {"runId", "generatedAt", "model", "topics"} }
    \cup { DictSet(SampleDoc, "topics", PyStr("not a list")),
           DictSet(SampleDoc, "topics", PyList(<<>>)) }
    \cup { DictSet(SampleDoc, "topics",
                   PyList(<<DocTopic("behavioral", "junior"),
                            DictDel(DocTopic("system_design", "senior"), f)>>)) :
           f \in {"title", "category", "difficulty", "description"} }

DocInputs == ValidDocs \cup StampedDocs \cup InvalidDocs

-----------------------------------------------------------------------------
(* Document validation: the same method in both clients *)

NoError == [kind |-> "none"]

\* the least index i of seq with P(seq[i]) is chosen by the callers below
FirstIndex(S) == CHOOSE i \in S : \A j \in S : i <= j

\* _validate_document with "model" left out of required_fields
MongoValidateDocumentForgetsModel(document) ==
    LET required_fields == <<"runId", "generatedAt", "topics">>
        topic_required_fields == <<"title", "category", "difficulty", "description">>
        missing == { i \in 1..3 : required_fields[i] \notin DOMAIN document }
        topics == document["topics"]
        lacking == { i \in 1..Len(topics.v) :
                        \E k \in 1..4 : topic_required_fields[k] \notin DOMAIN topics.v[i] }
    IN  IF missing # {}
        THEN [kind |-> "ValueError", msg |-> "Missing required field",
              field |-> required_fields[FirstIndex(missing)]]
        ELSE IF topics.t # "list"
        THEN [kind |-> "ValueError", msg |-> "Topics must be a list"]
        ELSE IF Len(topics.v) = 0
        THEN [kind |-> "ValueError", msg |-> "Topics list cannot be empty"]
        ELSE IF lacking # {}
        THEN [kind |-> "ValueError", msg |-> "Topic missing required field",
              topic |-> FirstIndex(lacking)]
        ELSE NoError

\* MongoDBClient._validate_document: the ValueError it raises, or NoError
MongoValidateDocument(document) ==
    LET required_fields == <<"runId", "generatedAt", "model", "topics">>
        topic_required_fields == <<"title", "category", "difficulty", "description">>
        missing == { i \in 1..4 : required_fields[i] \notin DOMAIN document }
        topics == document["topics"]
        lacking == { i \in 1..Len(topics.v) :
                        \E k \in 1..4 : topic_required_fields[k] \notin DOMAIN topics.v[i] }
    IN  IF missing # {}
        THEN [kind |-> "ValueError", msg |-> "Missing required field",
              field |-> required_fields[FirstIndex(missing)]]
        ELSE IF topics.t # "list"
        THEN [kind |-> "ValueError", msg |-> "Topics must be a list"]
        ELSE IF Len(topics.v) = 0
        THEN [kind |-> "ValueError", msg |-> "Topics list cannot be empty"]
        ELSE IF lacking # {}
        THEN LET i == FirstIndex(lacking)
                 k == FirstIndex({ k \in 1..4 :
                                     topic_required_fields[k] \notin DOMAIN topics.v[i] })
             IN  [kind |-> "ValueError", msg |-> "Topic missing required field",
                  topic |-> i, field |-> topic_required_fields[k]]
        ELSE NoError

\* FirebaseClient._validate_document: the ValueError it raises, or NoError
FirebaseValidateDocument(document) ==
    LET required_fields == <<"runId", "generatedAt", "model", "topics">>
        topic_required_fields == <<"title", "category", "difficulty", "description">>
        missing == { i \in 1..4 : required_fields[i] \notin DOMAIN document }
        topics == document["topics"]
        lacking == { i \in 1..Len(topics.v) :
                        \E k \in 1..4 : topic_required_fields[k] \notin DOMAIN topics.v[i] }
    IN  IF missing # {}
        THEN [kind |-> "ValueError", msg |-> "Missing required field",
              field |-> required_fields[FirstIndex(missing)]]
        ELSE IF topics.t # "list"
        THEN [kind |-> "ValueError", msg |-> "Topics must be a list"]
        ELSE IF Len(topics.v) = 0
        THEN [kind |-> "ValueError", msg |-> "Topics list cannot be empty"]
        ELSE IF lacking # {}
        THEN LET i == FirstIndex(lacking)
                 k == FirstIndex({ k \in 1..4 :
                                     topic_required_fields[k] \notin DOMAIN topics.v[i] })
             IN  [kind |-> "ValueError", msg |-> "Topic missing required field",
                  topic |-> i, field |-> topic_required_fields[k]]
        ELSE NoError

\* the _metadata block both clients stamp at insertion
Metadata(now) ==
    [insertedAt |-> now, version |-> "1.0.0", source |-> "github-adk-agent"]


-----------------------------------------------------------------------------
(* Errors and call outcomes *)

NotConnected == [kind |-> "ConnectionError", msg |-> "Not connected"]
RunIdExists(r) == [kind |-> "ValueError", msg |-> "Run ID already exists", runId |-> r]

\* The outcome of one call on a client: the arguments as passed, the exception raised
\* (NoError: it returned), the value returned, the caller's document object after the
\* call (insert only) and whether the call read or wrote the backend store.
Outcome(op, arg, error, value, doc, touched) ==
    [op |-> op, arg |-> arg, error |-> error, value |-> value, doc |-> doc,
     touched |-> touched]

NoCall == Outcome("none", PyNone, NoError, PyNone, PyNone, FALSE)

SearchArgs(category, difficulty, text_search, limit) ==
    [category |-> category, difficulty |-> difficulty, text_search |-> text_search,
     limit |-> limit]

DataOps == {"insert_topics_document", "get_topics_by_run_id", "get_recent_topics",
            "search_topics", "get_stats"}

\* the sequences that list every element of the index set S once
Orders(S) ==
    { o \in [1..Cardinality(S) -> S] : \A i, j \in 1..Cardinality(S) : i # j => o[i] # o[j] }

\* the first limit entries of a sequence
Limit(seq, limit) == SubSeq(seq, 1, Min(limit, Len(seq)))

RECURSIVE SumSeq(_)
SumSeq(seq) == IF seq = <<>> THEN 0 ELSE Head(seq) + SumSeq(Tail(seq))

-----------------------------------------------------------------------------
(* The MongoDB collection, as the driver and the server behave *)

NoIndexes == [unique |-> FALSE, text |-> FALSE]

\* collection.insert_one: the driver adds an _id to a document that has none (also
\* when the insert then fails); the server refuses a second _id, and a second runId
\* when the unique index on runId exists.
MongoInsertOne(docs, index, now, document) ==
    LET withId == IF "_id" \in DOMAIN document
                  THEN document
                  ELSE DictSet(document, "_id", [t |-> "oid", v |-> now])
        clash == \E i \in 1..Len(docs) :
                    \/ docs[i]["_id"] = withId["_id"]
                    \/ index.unique /\ docs[i]["runId"] = withId["runId"]
    IN  IF clash
        THEN [error |-> "DuplicateKeyError", document |-> withId, docs |-> docs]
        ELSE [error |-> "none", document |-> withId, docs |-> Append(docs, withId)]

\* a stored document matches {"topics.<field>": value} when some entry of its topics
\* array carries that value
MongoMatchesField(doc, field, value) ==
    \E i \in 1..Len(doc["topics"].v) :
        field \in DOMAIN doc["topics"].v[i] /\ doc["topics"].v[i][field] = value

\* {"$text": {"$search": term}} over the text index on topics.title and
\* topics.description
MongoMatchesText(doc, term) ==
    MongoMatchesField(doc, "title", term) \/ MongoMatchesField(doc, "description", term)

\* find(query).sort("generatedAt", -1).limit(limit), and Firestore's
\* order_by("generatedAt", DESCENDING).limit(limit): every order the store may give to
\* documents with equal generatedAt. hits: the indexes of the documents that match.
FindSorted(docs, hits, limit) ==
    { Limit([k \in 1..Cardinality(hits) |-> docs[o[k]]], limit) :
        o \in { o \in Orders(hits) :
                  \A a, b \in 1..Cardinality(hits) :
                      a < b => docs[o[a]]["generatedAt"] >= docs[o[b]]["generatedAt"] } }

-----------------------------------------------------------------------------
(* MongoDBClient *)

NewClient == [handle |-> "none", connected |-> FALSE]

ConnectionFailure == [kind |-> "ConnectionFailure", msg |-> "MongoDB connection failed"]

\* _ensure_indexes: four create_index calls in one try block. indexFail = k > 0: the
\* k-th call raises (0: none does); the unique index cannot be built over a
\* collection that already holds two documents with one runId. The exception is
\* logged, and the indexes of the calls before it stay.
MongoEnsureIndexes(docs, index, indexFail) ==
    LET dup == \E i, j \in 1..Len(docs) : i # j /\ docs[i]["runId"] = docs[j]["runId"]
        failAt == IF dup /\ ~index.unique THEN 1 ELSE indexFail
    IN  [unique |-> index.unique \/ failAt # 1,
         text   |-> index.text \/ failAt = 0]

\* connect: [client, index, error]. uriOk: the driver accepts the connection URI;
\* pingOk: the ping command succeeds.
MongoConnect(cl, docs, index, uriOk, pingOk, indexFail) ==
    IF ~uriOk
    THEN [client |-> cl, index |-> index, error |-> ConnectionFailure]
    ELSE IF ~pingOk
    THEN [client |-> [cl EXCEPT !.handle = "client"], index |-> index,
          error |-> ConnectionFailure]
    ELSE [client |-> [handle |-> "client", connected |-> TRUE],
          index |-> MongoEnsureIndexes(docs, index, indexFail),
          error |-> NoError]

\* insert_topics_document stamping with document.setdefault('_metadata', ...)
MongoInsertPrepareKeepsCallerMetadata(cl, now, document) ==
    IF ~cl.connected
    THEN [out |-> Outcome("insert_topics_document", document, NotConnected, PyNone,
                          PyDoc(document), FALSE),
          go |-> FALSE, document |-> document, clock |-> now]
    ELSE LET invalid == MongoValidateDocument(document)
         IN  IF invalid # NoError
             THEN [out |-> Outcome("insert_topics_document", document, invalid, PyNone,
                                   PyDoc(document), FALSE),
                   go |-> FALSE, document |-> document, clock |-> now]
             ELSE [out |-> NoCall, go |-> TRUE,
                   document |-> IF "_metadata" \in DOMAIN document THEN document
                                ELSE DictSet(document, "_metadata", Metadata(now)),
                   clock |-> now + 1]

\* insert_topics_document up to its await of insert_one: [out, go, document, clock].
\* go: the document is valid and stamped, and the insert is still to come.
MongoInsertPrepare(cl, now, document) ==
    IF ~cl.connected
    THEN [out |-> Outcome("insert_topics_document", document, NotConnected, PyNone,
                          PyDoc(document), FALSE),
          go |-> FALSE, document |-> document, clock |-> now]
    ELSE LET invalid == MongoValidateDocument(document)
         IN  IF invalid # NoError
             THEN [out |-> Outcome("insert_topics_document", document, invalid, PyNone,
                                   PyDoc(document), FALSE),
                   go |-> FALSE, document |-> document, clock |-> now]
             ELSE [out |-> NoCall, go |-> TRUE,
                   document |-> DictSet(document, "_metadata", Metadata(now)),
                   clock |-> now + 1]

\* the rest of insert_topics_document, from insert_one on: [out, docs]. original is
\* the document as the caller passed it, stamped the document as it is now.
MongoInsertExecute(docs, index, original, stamped) ==
    LET result == MongoInsertOne(docs, index, stamped["_metadata"].insertedAt, stamped)
    IN  IF result.error = "DuplicateKeyError"
        THEN [out |-> Outcome("insert_topics_document", original,
                              RunIdExists(stamped["runId"]), PyNone,
                              PyDoc(result.document), TRUE),
              docs |-> result.docs]
        ELSE [out |-> Outcome("insert_topics_document", original, NoError,
                              [t |-> "str", v |-> result.document["_id"]],
                              PyDoc(result.document), TRUE),
              docs |-> result.docs]

\* insert_topics_document: [out, docs, clock]
MongoInsertTopicsDocument(cl, docs, index, now, document) ==
    LET prepared == MongoInsertPrepare(cl, now, document)
        executed == MongoInsertExecute(docs, index, document, prepared.document)
    IN  IF prepared.go
        THEN [out |-> executed.out, docs |-> executed.docs, clock |-> prepared.clock]
        ELSE [out |-> prepared.out, docs |-> docs, clock |-> prepared.clock]

\* get_topics_by_run_id guarding on self.client instead of self.connected
MongoGetTopicsByRunIdChecksHandle(cl, docs, run_id) ==
    IF cl.handle = "none"
    THEN Outcome("get_topics_by_run_id", run_id, NotConnected, PyNone, PyNone, FALSE)
    ELSE LET hits == { i \in 1..Len(docs) : docs[i]["runId"] = run_id }
         IN  Outcome("get_topics_by_run_id", run_id, NoError,
                     IF hits = {} THEN PyNone ELSE PyDoc(docs[FirstIndex(hits)]),
                     PyNone, TRUE)

\* get_topics_by_run_id: find_one gives the first match in natural order, or None
MongoGetTopicsByRunId(cl, docs, run_id) ==
    IF ~cl.connected
    THEN Outcome("get_topics_by_run_id", run_id, NotConnected, PyNone, PyNone, FALSE)
    ELSE LET hits == { i \in 1..Len(docs) : docs[i]["runId"] = run_id }
         IN  Outcome("get_topics_by_run_id", run_id, NoError,
                     IF hits = {} THEN PyNone ELSE PyDoc(docs[FirstIndex(hits)]),
                     PyNone, TRUE)

\* get_recent_topics: the outcomes the call may have
MongoGetRecentTopics(cl, docs, limit) ==
    IF ~cl.connected
    THEN { Outcome("get_recent_topics", limit, NotConnected, PyNone, PyNone, FALSE) }
    ELSE { Outcome("get_recent_topics", limit, NoError, PyList(found), PyNone, TRUE) :
             found \in FindSorted(docs, 1..Len(docs), limit) }

OperationFailure == [kind |-> "OperationFailure", msg |-> "text index required for $text query"]

\* search_topics: the outcomes the call may have. A filter that is None (or empty) is
\* left out of the query; the conditions of the query are independent of each other.
MongoSearchTopics(cl, docs, index, category, difficulty, text_search, limit) ==
    LET Matches(doc) ==
            /\ category # PyNone => MongoMatchesField(doc, "category", category.v)
            /\ difficulty # PyNone => MongoMatchesField(doc, "difficulty", difficulty.v)
            /\ text_search # PyNone => MongoMatchesText(doc, text_search.v)
    IN  IF ~cl.connected
        THEN { Outcome("search_topics", SearchArgs(category, difficulty, text_search, limit), NotConnected, PyNone, PyNone, FALSE) }
        ELSE IF text_search # PyNone /\ ~index.text
        THEN { Outcome("search_topics", SearchArgs(category, difficulty, text_search, limit), OperationFailure, PyNone, PyNone, TRUE) }
        ELSE { Outcome("search_topics", SearchArgs(category, difficulty, text_search, limit), NoError, PyList(found), PyNone, TRUE) :
                 found \in FindSorted(docs, { i \in 1..Len(docs) : Matches(docs[i]) }, limit) }

\* every topic of every stored document, in order
RECURSIVE AllTopics(_)
AllTopics(docs) ==
    IF docs = <<>> THEN <<>> ELSE Head(docs)["topics"].v \o AllTopics(Tail(docs))

\* {"$unwind": "$topics"}, {"$group": {"_id": "$topics.<field>", "count": {"$sum": 1}}}
\* as the mapping get_stats builds from it
MongoDistribution(docs, field) ==
    LET all == AllTopics(docs)
        tags == { all[i][field] : i \in 1..Len(all) }
    IN  [tag \in tags |-> Cardinality({ i \in 1..Len(all) : all[i][field] = tag })]

\* get_stats
MongoGetStats(cl, docs) ==
    IF ~cl.connected
    THEN Outcome("get_stats", PyNone, NotConnected, PyNone, PyNone, FALSE)
    ELSE LET total_documents == Len(docs)
             total_topics == SumSeq([i \in 1..Len(docs) |-> Len(docs[i]["topics"].v)])
             last_generation ==
                 IF docs = <<>> THEN PyNone
                 ELSE [t |-> "time",
                       v |-> CHOOSE g \in { docs[i]["generatedAt"] : i \in 1..Len(docs) } :
                                \A i \in 1..Len(docs) : docs[i]["generatedAt"] <= g]
         IN  Outcome("get_stats", PyNone, NoError,
                     [t |-> "stats",
                      v |-> [totalDocuments |-> total_documents,
                             totalTopics |-> total_topics,
                             lastGeneration |-> last_generation,
                             categoriesDistribution |-> MongoDistribution(docs, "category"),
                             difficultiesDistribution |-> MongoDistribution(docs, "difficulty")]],
                     PyNone, TRUE)

\* close without its try/except: the driver's exception reaches the caller
MongoCloseLetsRaise(cl, closeFails) ==
    IF cl.handle # "none"
    THEN IF closeFails
         THEN [client |-> cl, error |-> [kind |-> "DriverError", msg |-> "close failed"]]
         ELSE [client |-> [cl EXCEPT !.connected = FALSE], error |-> NoError]
    ELSE [client |-> cl, error |-> NoError]

\* close: [client, error]. closeFails: the driver's client.close() raises; the
\* exception is caught and logged.
MongoClose(cl, closeFails) ==
    IF cl.handle # "none"
    THEN IF closeFails
         THEN [client |-> cl, error |-> NoError]
         ELSE [client |-> [cl EXCEPT !.connected = FALSE], error |-> NoError]
    ELSE [client |-> cl, error |-> NoError]

-----------------------------------------------------------------------------
(* The Firestore collection, as the client library and the service behave *)

\* document ids in the order Firestore lists them (by name)
RunIdOrder == <<"r1", "r2">>

\* collection.get(): the stored documents in document-id order
RECURSIVE FirestoreList(_, _)
FirestoreList(fdocs, k) ==
    IF k > Len(RunIdOrder) THEN <<>>
    ELSE (IF RunIdOrder[k] \in DOMAIN fdocs THEN <<fdocs[RunIdOrder[k]]>> ELSE <<>>)
         \o FirestoreList(fdocs, k + 1)

\* doc_ref.get().exists
FirestoreExists(fdocs, doc_id) == doc_id \in DOMAIN fdocs

\* doc_ref.set(document): creates the document or replaces it
FirestoreSet(fdocs, doc_id, document) == DictSet(fdocs, doc_id, document)

\* FieldFilter("topics", "array_contains", element): some entry of the topics array
\* equals the element, key for key
FirestoreArrayContains(doc, element) ==
    \E i \in 1..Len(doc["topics"].v) : doc["topics"].v[i] = element

-----------------------------------------------------------------------------
(* FirebaseClient *)

FirebaseConnectionError == [kind |-> "ConnectionError", msg |-> "Firebase connection failed"]
InvalidArgument ==
    [kind |-> "InvalidArgument", msg |-> "at most one array_contains filter per query"]

\* connect: [client, apps, error]. initOk: the credentials load and initialize_app
\* succeeds; clientOk: firestore.client succeeds; the outcome of the probe query of
\* _test_connection is only logged, so it is no parameter.
FirebaseConnect(cl, apps, initOk, clientOk) ==
    IF ~apps /\ ~initOk
    THEN [client |-> cl, apps |-> apps, error |-> FirebaseConnectionError]
    ELSE IF ~clientOk
    THEN [client |-> [cl EXCEPT !.handle = "app"], apps |-> TRUE,
          error |-> FirebaseConnectionError]
    ELSE [client |-> [handle |-> "app", connected |-> TRUE], apps |-> TRUE,
          error |-> NoError]

\* insert_topics_document up to its read of the store: [out, go, document, clock].
\* go: the document id was found free and the write is still to come.
FirebaseInsertCheck(cl, fdocs, now, document) ==
    IF ~cl.connected
    THEN [out |-> Outcome("insert_topics_document", document, NotConnected, PyNone,
                          PyDoc(document), FALSE),
          go |-> FALSE, document |-> document, clock |-> now]
    ELSE LET invalid == FirebaseValidateDocument(document)
             stamped == DictSet(document, "_metadata", Metadata(now))
         IN  IF invalid # NoError
             THEN [out |-> Outcome("insert_topics_document", document, invalid, PyNone,
                                   PyDoc(document), FALSE),
                   go |-> FALSE, document |-> document, clock |-> now]
             ELSE IF FirestoreExists(fdocs, document["runId"])
             THEN [out |-> Outcome("insert_topics_document", document, RunIdExists(document["runId"]), PyNone,
                                   PyDoc(stamped), TRUE),
                   go |-> FALSE, document |-> stamped, clock |-> now + 1]
             ELSE [out |-> NoCall, go |-> TRUE, document |-> stamped, clock |-> now + 1]

\* the rest of insert_topics_document, the write: [out, fdocs]. original is the
\* document as the caller passed it, stamped the document as it is now.
FirebaseInsertWrite(fdocs, original, stamped) ==
    [out |-> Outcome("insert_topics_document", original, NoError, PyStr(stamped["runId"]),
                     PyDoc(stamped), TRUE),
     fdocs |-> FirestoreSet(fdocs, stamped["runId"], stamped)]

\* insert_topics_document, which awaits nothing between its read and its write:
\* [out, fdocs, clock]
FirebaseInsertTopicsDocument(cl, fdocs, now, document) ==
    LET check == FirebaseInsertCheck(cl, fdocs, now, document)
        write == FirebaseInsertWrite(fdocs, document, check.document)
    IN  IF check.go
        THEN [out |-> write.out, fdocs |-> write.fdocs, clock |-> check.clock]
        ELSE [out |-> check.out, fdocs |-> fdocs, clock |-> check.clock]

\* get_topics_by_run_id
FirebaseGetTopicsByRunId(cl, fdocs, run_id) ==
    IF ~cl.connected
    THEN Outcome("get_topics_by_run_id", run_id, NotConnected, PyNone, PyNone, FALSE)
    ELSE Outcome("get_topics_by_run_id", run_id, NoError,
                 IF FirestoreExists(fdocs, run_id) THEN PyDoc(fdocs[run_id]) ELSE PyNone,
                 PyNone, TRUE)

\* get_recent_topics: the outcomes the call may have
FirebaseGetRecentTopics(cl, fdocs, limit) ==
    IF ~cl.connected
    THEN { Outcome("get_recent_topics", limit, NotConnected, PyNone, PyNone, FALSE) }
    ELSE { Outcome("get_recent_topics", limit, NoError, PyList(found), PyNone, TRUE) :
             found \in FindSorted(FirestoreList(fdocs, 1), 1..Len(FirestoreList(fdocs, 1)), limit) }

\* search_topics. The query asks for an entry of topics equal to {"category": c},
\* and for one equal to {"difficulty": d}; text_search is not used.
FirebaseSearchTopics(cl, fdocs, category, difficulty, text_search, limit) ==
    LET all == FirestoreList(fdocs, 1)
        Matches(doc) ==
            /\ category # PyNone =>
                   FirestoreArrayContains(doc, [category |-> category.v])
            /\ difficulty # PyNone =>
                   FirestoreArrayContains(doc, [difficulty |-> difficulty.v])
        hits == { i \in 1..Len(all) : Matches(all[i]) }
        found == [k \in 1..Cardinality(hits) |->
                     all[CHOOSE i \in hits : Cardinality({ j \in hits : j < i }) = k - 1]]
    IN  IF ~cl.connected
        THEN Outcome("search_topics", SearchArgs(category, difficulty, text_search, limit), NotConnected, PyNone, PyNone, FALSE)
        ELSE IF category # PyNone /\ difficulty # PyNone
        THEN Outcome("search_topics", SearchArgs(category, difficulty, text_search, limit), InvalidArgument, PyNone, PyNone, TRUE)
        ELSE Outcome("search_topics", SearchArgs(category, difficulty, text_search, limit), NoError, PyList(Limit(found, limit)), PyNone, TRUE)

\* the counting loop of get_stats over one field of the topics
FirebaseDistribution(docs, field) ==
    LET all == AllTopics(docs)
        Tag(topic) == IF field \in DOMAIN topic THEN topic[field] ELSE "unknown"
        tags == { Tag(all[i]) : i \in 1..Len(all) }
    IN  [tag \in tags |-> Cardinality({ i \in 1..Len(all) : Tag(all[i]) = tag })]

\* the loop of get_stats that tracks the most recent generatedAt
RECURSIVE FirebaseLastGeneration(_, _)
FirebaseLastGenerationKeepsTheLast(docs, last_generation) ==
    IF docs = <<>> THEN last_generation
    ELSE FirebaseLastGeneration(Tail(docs),
                                [t |-> "time", v |-> Head(docs)["generatedAt"]])

FirebaseLastGeneration(docs, last_generation) ==
    IF docs = <<>> THEN last_generation
    ELSE LET gen_date == Head(docs)["generatedAt"]
         IN  FirebaseLastGeneration(
                 Tail(docs),
                 IF last_generation = PyNone \/ gen_date > last_generation.v
                 THEN [t |-> "time", v |-> gen_date]
                 ELSE last_generation)

\* get_stats
FirebaseGetStats(cl, fdocs) ==
    LET docs == FirestoreList(fdocs, 1)
        total_documents == Len(docs)
    IN  IF ~cl.connected
        THEN Outcome("get_stats", PyNone, NotConnected, PyNone, PyNone, FALSE)
        ELSE IF total_documents = 0
        THEN Outcome("get_stats", PyNone, NoError,
                     [t |-> "stats",
                      v |-> [totalDocuments |-> 0, totalTopics |-> 0,
                             lastGeneration |-> PyNone,
                             categoriesDistribution |-> <<>>,
                             difficultiesDistribution |-> <<>>]],
                     PyNone, TRUE)
        ELSE Outcome("get_stats", PyNone, NoError,
                     [t |-> "stats",
                      v |-> [totalDocuments |-> total_documents,
                             totalTopics |->
                                 SumSeq([i \in 1..Len(docs) |-> Len(docs[i]["topics"].v)]),
                             lastGeneration |-> FirebaseLastGeneration(docs, PyNone),
                             categoriesDistribution |-> FirebaseDistribution(docs, "category"),
                             difficultiesDistribution |-> FirebaseDistribution(docs, "difficulty")]],
                     PyNone, TRUE)

\* close: [client, apps, error]. delete_app raises when the app is no longer
\* registered, or when deleteFails; the exception is caught and logged.
FirebaseClose(cl, apps, deleteFails) ==
    IF cl.handle # "none"
    THEN IF ~apps \/ deleteFails
         THEN [client |-> cl, apps |-> apps, error |-> NoError]
         ELSE [client |-> [cl EXCEPT !.connected = FALSE], apps |-> FALSE,
               error |-> NoError]
    ELSE [client |-> cl, apps |-> apps, error |-> NoError]

-----------------------------------------------------------------------------
(* The calls on a client instance, as actions. Each client instance lives in a  *)
(* process of its own; the instances of one behaviour share one store.          *)

Procs == {1, 2}

Categories == {"system_design", "behavioral"}
Difficulties == {"junior", "senior"}
Optional(S) == {PyNone} \cup { PyStr(x) : x \in S }
Limits == {1, 50}

Returns(c, out) == ret' = [ret EXCEPT ![c] = out]

Connect(c) ==
    /\ insPc[c] = "idle"
    /\ \/ /\ backend = "mongo"
          /\ \E uriOk, pingOk \in BOOLEAN, indexFail \in 0..4 :
                LET r == MongoConnect(client[c], mongoDocs, mongoIndex,
                                      uriOk, pingOk, indexFail)
                IN  /\ client' = [client EXCEPT ![c] = r.client]
                    /\ mongoIndex' = r.index
                    /\ everConnected' =
                           [everConnected EXCEPT ![c] = @ \/ r.error = NoError]
                    /\ Returns(c, Outcome("connect", PyNone, r.error, PyNone, PyNone, FALSE))
          /\ UNCHANGED fbApps
       \/ /\ backend = "firebase"
          /\ \E initOk, clientOk \in BOOLEAN :
                LET r == FirebaseConnect(client[c], fbApps[c], initOk, clientOk)
                IN  /\ client' = [client EXCEPT ![c] = r.client]
                    /\ fbApps' = [fbApps EXCEPT ![c] = r.apps]
                    /\ everConnected' =
                           [everConnected EXCEPT ![c] = @ \/ r.error = NoError]
                    /\ Returns(c, Outcome("connect", PyNone, r.error, PyNone, PyNone, FALSE))
          /\ UNCHANGED mongoIndex
    /\ UNCHANGED <<agentVars, factoryVars, backend, mongoDocs, clock, fireDocs, insPc, insDoc>>

Close(c) ==
    /\ insPc[c] = "idle"
    /\ \/ /\ backend = "mongo"
          /\ \E closeFails \in BOOLEAN :
                LET r == MongoClose(client[c], closeFails)
                IN  /\ client' = [client EXCEPT ![c] = r.client]
                    /\ Returns(c, Outcome("close", PyNone, r.error, PyNone, PyNone, FALSE))
          /\ UNCHANGED fbApps
       \/ /\ backend = "firebase"
          /\ \E deleteFails \in BOOLEAN :
                LET r == FirebaseClose(client[c], fbApps[c], deleteFails)
                IN  /\ client' = [client EXCEPT ![c] = r.client]
                    /\ fbApps' = [fbApps EXCEPT ![c] = r.apps]
                    /\ Returns(c, Outcome("close", PyNone, r.error, PyNone, PyNone, FALSE))
    /\ UNCHANGED <<agentVars, factoryVars, backend, mongoDocs, mongoIndex, clock, fireDocs, everConnected,
                   insPc, insDoc>>

\* insert_topics_document as one step
InsertTopicsDocument(c, document) ==
    /\ insPc[c] = "idle"
    /\ \/ /\ backend = "mongo"
          /\ LET r == MongoInsertTopicsDocument(client[c], mongoDocs, mongoIndex,
                                                clock, document)
             IN  /\ r.clock <= MaxClock
                 /\ mongoDocs' = r.docs
                 /\ clock' = r.clock
                 /\ Returns(c, r.out)
          /\ UNCHANGED fireDocs
       \/ /\ backend = "firebase"
          /\ LET r == FirebaseInsertTopicsDocument(client[c], fireDocs, clock, document)
             IN  /\ r.clock <= MaxClock
                 /\ fireDocs' = r.fdocs
                 /\ clock' = r.clock
                 /\ Returns(c, r.out)
          /\ UNCHANGED mongoDocs
    /\ UNCHANGED <<agentVars, factoryVars, backend, mongoIndex, fbApps, client, everConnected, insPc, insDoc>>

\* the calls that only read the store
GetTopicsByRunId(c, run_id) ==
    /\ insPc[c] = "idle"
    /\ \/ /\ backend = "mongo"
          /\ Returns(c, MongoGetTopicsByRunId(client[c], mongoDocs, run_id))
       \/ /\ backend = "firebase"
          /\ Returns(c, FirebaseGetTopicsByRunId(client[c], fireDocs, run_id))
    /\ UNCHANGED <<agentVars, factoryVars, backend, mongoDocs, mongoIndex, clock, fireDocs, fbApps, client,
                   everConnected, insPc, insDoc>>

GetRecentTopics(c, limit) ==
    /\ insPc[c] = "idle"
    /\ \/ /\ backend = "mongo"
          /\ \E out \in MongoGetRecentTopics(client[c], mongoDocs, limit) : Returns(c, out)
       \/ /\ backend = "firebase"
          /\ \E out \in FirebaseGetRecentTopics(client[c], fireDocs, limit) : Returns(c, out)
    /\ UNCHANGED <<agentVars, factoryVars, backend, mongoDocs, mongoIndex, clock, fireDocs, fbApps, client,
                   everConnected, insPc, insDoc>>

SearchTopics(c, category, difficulty, text_search, limit) ==
    /\ insPc[c] = "idle"
    /\ \/ /\ backend = "mongo"
          /\ \E out \in MongoSearchTopics(client[c], mongoDocs, mongoIndex, category,
                                          difficulty, text_search, limit) :
                Returns(c, out)
       \/ /\ backend = "firebase"
          /\ Returns(c, FirebaseSearchTopics(client[c], fireDocs, category, difficulty,
                                             text_search, limit))
    /\ UNCHANGED <<agentVars, factoryVars, backend, mongoDocs, mongoIndex, clock, fireDocs, fbApps, client,
                   everConnected, insPc, insDoc>>

GetStats(c) ==
    /\ insPc[c] = "idle"
    /\ \/ /\ backend = "mongo"
          /\ Returns(c, MongoGetStats(client[c], mongoDocs))
       \/ /\ backend = "firebase"
          /\ Returns(c, FirebaseGetStats(client[c], fireDocs))
    /\ UNCHANGED <<agentVars, factoryVars, backend, mongoDocs, mongoIndex, clock, fireDocs, fbApps, client,
                   everConnected, insPc, insDoc>>

\* InterviewTopicsAgent(project_id): no model yet, not initialized
NewAgent == [initialized |-> FALSE, model |-> PyNone]

\* the storage clients as constructed; the agent is constructed and not used
InitStore ==
    /\ backend \in {"mongo", "firebase"}
    /\ mongoDocs = <<>>
    /\ mongoIndex = NoIndexes
    /\ clock = 0
    /\ fireDocs = <<>>
    /\ fbApps = [c \in Procs |-> FALSE]
    /\ client = [c \in Procs |-> NewClient]
    /\ everConnected = [c \in Procs |-> FALSE]
    /\ ret = [c \in Procs |-> NoCall]
    /\ insPc = [c \in Procs |-> "idle"]
    /\ insDoc = [c \in Procs |-> PyNone]
    /\ agent = NewAgent
    /\ llm = <<>>
    /\ candidates = <<>>
    /\ requested = 0
    /\ agentRet = PyNone
    /\ valRet = PyNone
    /\ rawText = <<>>
    /\ parseRet = PyNone
    /\ env = <<>>
    /\ facRet = PyNone

\* one client instance and its caller, which awaits each call before the next
NextStore ==
    \/ Connect(1)
    \/ Close(1)
    \/ \E document \in DocInputs : InsertTopicsDocument(1, document)
    \/ \E run_id \in RunIds : GetTopicsByRunId(1, run_id)
    \/ \E limit \in Limits : GetRecentTopics(1, limit)
    \/ \E category \in Optional(Categories), difficulty \in Optional(Difficulties),
          text_search \in Optional({"title"}), limit \in Limits :
            /\ text_search # PyNone => limit = 50
            /\ SearchTopics(1, category, difficulty, text_search, limit)
    \/ GetStats(1)

SpecStore == InitStore /\ [][NextStore]_vars

-----------------------------------------------------------------------------
(* Two runs that insert at overlapping times: each insert is two steps, split   *)
(* where the call goes to the backend (MongoDB: the awaited insert_one;         *)
(* Firestore: between the read doc_ref.get() and the write doc_ref.set()).      *)

\* two different run documents with one runId
RaceDocs == { BaseDoc("r1", gen[1], gen[2]) : gen \in Generations }

InsertBegin(c, document) ==
    /\ insPc[c] = "idle"
    /\ \/ /\ backend = "mongo"
          /\ LET r == MongoInsertPrepare(client[c], clock, document)
             IN  /\ r.clock <= MaxClock
                 /\ clock' = r.clock
                 /\ IF r.go
                    THEN /\ insPc' = [insPc EXCEPT ![c] = "inserting"]
                         /\ insDoc' = [insDoc EXCEPT ![c] =
                                          [original |-> document, stamped |-> r.document]]
                         /\ UNCHANGED ret
                    ELSE /\ Returns(c, r.out)
                         /\ UNCHANGED <<insPc, insDoc>>
       \/ /\ backend = "firebase"
          /\ LET r == FirebaseInsertCheck(client[c], fireDocs, clock, document)
             IN  /\ r.clock <= MaxClock
                 /\ clock' = r.clock
                 /\ IF r.go
                    THEN /\ insPc' = [insPc EXCEPT ![c] = "inserting"]
                         /\ insDoc' = [insDoc EXCEPT ![c] =
                                          [original |-> document, stamped |-> r.document]]
                         /\ UNCHANGED ret
                    ELSE /\ Returns(c, r.out)
                         /\ UNCHANGED <<insPc, insDoc>>
    /\ UNCHANGED <<agentVars, factoryVars, backend, mongoDocs, mongoIndex, fireDocs, fbApps, client,
                   everConnected>>

InsertFinish(c) ==
    /\ insPc[c] = "inserting"
    /\ \/ /\ backend = "mongo"
          /\ LET r == MongoInsertExecute(mongoDocs, mongoIndex, insDoc[c].original,
                                         insDoc[c].stamped)
             IN  /\ mongoDocs' = r.docs
                 /\ Returns(c, r.out)
          /\ UNCHANGED fireDocs
       \/ /\ backend = "firebase"
          /\ LET r == FirebaseInsertWrite(fireDocs, insDoc[c].original, insDoc[c].stamped)
             IN  /\ fireDocs' = r.fdocs
                 /\ Returns(c, r.out)
          /\ UNCHANGED mongoDocs
    /\ insPc' = [insPc EXCEPT ![c] = "idle"]
    /\ insDoc' = [insDoc EXCEPT ![c] = PyNone]
    /\ UNCHANGED <<agentVars, factoryVars, backend, mongoIndex, clock, fbApps, client, everConnected>>

NextRace ==
    \E c \in Procs :
        \/ Connect(c)
        \/ \E document \in RaceDocs : InsertBegin(c, document)
        \/ InsertFinish(c)

SpecRace == InitStore /\ [][NextRace]_vars

-----------------------------------------------------------------------------
(* Claims about the storage clients *)

InsertSucceeded(c) ==
    ret[c].op = "insert_topics_document" /\ ret[c].error = NoError

\* the documents the store of the behaviour's backend holds under a runId
StoredUnder(r) ==
    IF backend = "mongo"
    THEN { mongoDocs[i] : i \in { i \in 1..Len(mongoDocs) : mongoDocs[i]["runId"] = r } }
    ELSE IF r \in DOMAIN fireDocs THEN { fireDocs[r] } ELSE {}

\* C1: of two insert_topics_document calls with one runId that overlap in time, at
\* most one returns successfully.
C1_AtMostOneInsertSucceeds ==
    \A c, d \in Procs :
        (c # d /\ InsertSucceeded(c) /\ InsertSucceeded(d))
            => ret[c].arg["runId"] # ret[d].arg["runId"]

\* C2: once a document is stored under a runId, a later insert_topics_document with
\* that runId does not succeed: the store keeps exactly the first document under the
\* runId, and a call that returns normally found no document under its runId.
C2_SecondInsertRejected ==
    [][\A r \in RunIds :
          StoredUnder(r) # {} =>
              /\ StoredUnder(r)' = StoredUnder(r)
              /\ \A c \in Procs :
                    (ret'[c] # ret[c] /\ InsertSucceeded(c)') => ret'[c].arg["runId"] # r
      ]_storeVars

\* a call by client c ends in this step
Called(c, op) == ret'[c] # ret[c] /\ ret'[c].op = op

\* C5: on an instance on which no connect() has completed successfully, each of the
\* five data operations fails with the not-connected error and neither reads nor
\* writes the store.
C5_NotConnectedFails ==
    [][\A c \in Procs :
          (~everConnected'[c] /\ ret'[c] # ret[c] /\ ret'[c].op \in DataOps) =>
              /\ ret'[c].error = NotConnected
              /\ ~ret'[c].touched
              /\ mongoDocs' = mongoDocs
              /\ fireDocs' = fireDocs
      ]_storeVars

\* C5 witness: a data operation has been called on an instance whose only connect()
\* failed after the driver handle was created.
C5_Witness ==
    /\ ~everConnected[1]
    /\ client[1].handle # "none"
    /\ ret[1].op = "get_topics_by_run_id"
    /\ ret[1].error = NotConnected

\* what get_topics_by_run_id returns to client c in the current state
FetchNow(c, run_id) ==
    IF backend = "mongo"
    THEN MongoGetTopicsByRunId(client[c], mongoDocs, run_id)
    ELSE FirebaseGetTopicsByRunId(client[c], fireDocs, run_id)

\* C6: after insert_topics_document(d) has succeeded, get_topics_by_run_id(d.runId)
\* returns a document with exactly the fields of d plus _metadata, every field of d
\* unchanged.
C6_RoundTrip ==
    \A c \in Procs :
        InsertSucceeded(c) =>
            LET d == ret[c].arg
                got == FetchNow(c, d["runId"])
            IN  /\ got.error = NoError
                /\ got.value.t = "doc"
                /\ DOMAIN got.value.v = DOMAIN d \cup {"_metadata"}
                /\ \A f \in DOMAIN d \ {"_metadata"} : got.value.v[f] = d[f]

\* the document shapes insert_topics_document must refuse
LacksShape(d) ==
    \/ {"runId", "generatedAt", "model", "topics"} \ DOMAIN d # {}
    \/ d["topics"].t # "list"
    \/ d["topics"].v = <<>>
    \/ \E i \in 1..Len(d["topics"].v) :
           {"title", "category", "difficulty", "description"} \ DOMAIN d["topics"].v[i] # {}

\* C7: on a connected client, insert_topics_document of a document that lacks a
\* required field, whose topics is no list or is empty, or one of whose topics lacks
\* a required field, fails with the invalid-document error and leaves the store as
\* it was.
C7_InvalidDocumentRejected ==
    [][\A c \in Procs :
          (Called(c, "insert_topics_document") /\ client[c].connected
             /\ LacksShape(ret'[c].arg)) =>
              /\ ret'[c].error.kind = "ValueError"
              /\ ret'[c].error.msg \in {"Missing required field", "Topics must be a list",
                                        "Topics list cannot be empty",
                                        "Topic missing required field"}
              /\ mongoDocs' = mongoDocs
              /\ fireDocs' = fireDocs
      ]_storeVars

\* C7 witness: a connected client with a document in its store has refused a
\* document whose second topic lacks a field.
C7_Witness ==
    /\ client[1].connected
    /\ StoredUnder("r1") # {}
    /\ ret[1].op = "insert_topics_document"
    /\ ret[1].error.kind = "ValueError"
    /\ ret[1].error.msg = "Topic missing required field"

\* one entry of the document's topics matches every filter that was given
EntryMatches(doc, category, difficulty) ==
    \E i \in 1..Len(doc["topics"].v) :
        /\ category # PyNone => doc["topics"].v[i]["category"] = category.v
        /\ difficulty # PyNone => doc["topics"].v[i]["difficulty"] = difficulty.v

AllStored ==
    IF backend = "mongo"
    THEN { mongoDocs[i] : i \in 1..Len(mongoDocs) }
    ELSE { fireDocs[r] : r \in DOMAIN fireDocs }

\* C8: search_topics(category, difficulty) returns only stored documents in which
\* one topic entry matches all the given filters, and when it returns fewer than
\* limit documents it has returned every such stored document.
C8_SearchMatchesOneEntry ==
    \A c \in Procs :
        (ret[c].op = "search_topics" /\ ret[c].error = NoError
           /\ ret[c].arg.text_search = PyNone) =>
            LET a == ret[c].arg
                found == ret[c].value.v
            IN  /\ \A i \in 1..Len(found) :
                      /\ found[i] \in AllStored
                      /\ EntryMatches(found[i], a.category, a.difficulty)
                /\ Len(found) < a.limit =>
                      \A doc \in AllStored :
                          EntryMatches(doc, a.category, a.difficulty) =>
                              \E i \in 1..Len(found) : found[i] = doc

\* C10: close() never raises, in whatever state it is called.
C10_CloseNeverRaises ==
    \A c \in Procs : ret[c].op = "close" => ret[c].error = NoError

\* C10 witness: close() has returned on a connected client whose driver refused to
\* close, so that the client is still marked connected.
C10_Witness ==
    ret[1].op = "close" /\ client[1].connected

-----------------------------------------------------------------------------
(* InterviewTopicsAgent: the values of a parsed answer *)

\* Text whose characters the code looks at (title, description, the entries
\* of keyPoints and technologies) is a sequence of one-character strings;
\* text the code only looks up in a dictionary (category, difficulty) is a
\* TLA+ string.
PyInt(n) == [t |-> "int", v |-> n]
PyBool(b) == [t |-> "bool", v |-> b]
\* a float, held in tenths: PyFloat(457) is 45.7
PyFloat(tenths) == [t |-> "float", v |-> tenths]
\* the float NaN, which json.loads reads from the literal NaN
PyNaN == [t |-> "nan"]
PyDict(d) == [t |-> "dict", v |-> d]

Repeat(x, n) == [i \in 1..n |-> x]

LastIndex(S) == CHOOSE i \in S : \A j \in S : i >= j

\* the characters str.strip() removes
Whitespace == {" ", "\t", "\n"}

\* s.strip()
Strip(s) ==
    LET keep == { i \in 1..Len(s) : s[i] \notin Whitespace }
    IN  IF keep = {} THEN <<>> ELSE SubSeq(s, FirstIndex(keep), LastIndex(keep))

Digit == <<"0", "1", "2", "3", "4", "5", "6", "7", "8", "9">>

RECURSIVE Digits(_)
Digits(n) ==
    IF n < 10 THEN <<Digit[n + 1]>>
    ELSE Digits(n \div 10) \o <<Digit[(n % 10) + 1]>>

\* str(value), for the values the lists drawn below hold: text, integers,
\* booleans and None
Str(value) ==
    CASE value.t = "str" -> value.v
      [] value.t = "int" -> IF value.v < 0 THEN <<"-">> \o Digits(0 - value.v)
                            ELSE Digits(value.v)
      [] value.t = "bool" -> IF value.v THEN <<"T", "r", "u", "e">>
                             ELSE <<"F", "a", "l", "s", "e">>
      [] value.t = "none" -> <<"N", "o", "n", "e">>

\* isinstance(value, (int, float)): bool is a subclass of int
IsNumber(value) == value.t \in {"int", "bool", "float", "nan"}

\* value < 15 or value > 120, of a number; every comparison with NaN is False
OutOfRange(value) ==
    CASE value.t = "int" -> value.v < 15 \/ value.v > 120
      [] value.t = "bool" -> TRUE
      [] value.t = "float" -> value.v < 150 \/ value.v > 1200
      [] value.t = "nan" -> FALSE

\* int(value) raises ValueError on NaN
IntRaises(value) == value.t = "nan"

\* int(value), of a number in [15, 120]: a float is truncated
IntOf(value) == IF value.t = "float" THEN value.v \div 10 ELSE value.v

\* a dictionary key must be hashable: lists and dictionaries are not
Hashable(value) == value.t \notin {"list", "dict"}

-----------------------------------------------------------------------------
(* InterviewTopicsAgent._validate_topics *)

\* the keys of self.categories and of self.difficulty_levels
categories ==
    {"technical_coding", "system_design", "behavioral", "technology_deep_dive",
     "architecture_decisions", "debugging_troubleshooting", "testing_quality",
     "devops_deployment"}

difficulty_levels == {"junior", "mid-level", "senior", "staff"}

required_fields ==
    <<"title", "category", "difficulty", "description", "keyPoints", "duration",
      "technologies">>

\* what the loop does with one candidate: whether it is appended, which
\* warning is logged, the cleaned topic, and the candidate as the loop leaves it
Skipped(topic, warning) ==
    [kept |-> FALSE, log |-> warning, cleaned |-> PyNone, topic |-> topic]

Kept(topic, cleaned) ==
    [kept |-> TRUE, log |-> "none", cleaned |-> cleaned, topic |-> topic]

\* [str(x).strip() for x in list[:most]]
CleanList(list, most) ==
    PyList([i \in 1..Min(Len(list.v), most) |-> PyStr(Strip(Str(list.v[i])))])

\* the candidate after the two corrections of lines 258-264
Corrected(d) ==
    LET d1 == IF ~IsNumber(d["duration"]) \/ OutOfRange(d["duration"])
              THEN DictSet(d, "duration", PyInt(30)) ELSE d
    IN  IF d1["technologies"].t # "list"
        THEN DictSet(d1, "technologies", PyList(<<>>)) ELSE d1

\* the body of the loop for one candidate.  The inner loop over
\* required_fields only logs: its `continue` goes on with the next field, so
\* a missing field is met again as a KeyError where the field is read.  Every
\* exception is caught by the except clause and skips the candidate.
ValidateTopic(topic) ==
    IF topic.t # "dict"
    THEN \* `field not in topic` or topic["title"] raises TypeError
         Skipped(topic, "error")
    ELSE
    LET d == topic.v
        has(field) == field \in DOMAIN d
    IN
    IF ~has("title") THEN Skipped(topic, "error")
    ELSE IF d["title"].t # "str" \/ Len(d["title"].v) < 10
    THEN Skipped(topic, "invalid title")
    ELSE IF ~has("category") \/ ~Hashable(d["category"]) THEN Skipped(topic, "error")
    ELSE IF ~(d["category"].t = "str" /\ d["category"].v \in categories)
    THEN Skipped(topic, "invalid category")
    ELSE IF ~has("difficulty") \/ ~Hashable(d["difficulty"]) THEN Skipped(topic, "error")
    ELSE IF ~(d["difficulty"].t = "str" /\ d["difficulty"].v \in difficulty_levels)
    THEN Skipped(topic, "invalid difficulty")
    ELSE IF ~has("keyPoints") THEN Skipped(topic, "error")
    ELSE IF d["keyPoints"].t # "list" \/ Len(d["keyPoints"].v) = 0
    THEN Skipped(topic, "invalid keyPoints")
    ELSE IF ~has("duration") THEN Skipped(topic, "error")
    ELSE IF ~has("technologies")
    THEN \* the duration is corrected before technologies is read
         Skipped(PyDict(IF ~IsNumber(d["duration"]) \/ OutOfRange(d["duration"])
                        THEN DictSet(d, "duration", PyInt(30)) ELSE d), "error")
    ELSE
    LET c == Corrected(d)
    IN
    IF \/ ~has("description")
       \/ c["description"].t # "str"       \* no .strip(): AttributeError
       \/ IntRaises(c["duration"])         \* int(nan): ValueError
    THEN Skipped(PyDict(c), "error")
    ELSE Kept(PyDict(c),
              PyDict([title |-> PyStr(Strip(c["title"].v)),
                      category |-> c["category"],
                      difficulty |-> c["difficulty"],
                      description |-> PyStr(Strip(c["description"].v)),
                      keyPoints |-> CleanList(c["keyPoints"], 5),
                      duration |-> PyInt(IntOf(c["duration"])),
                      technologies |-> CleanList(c["technologies"], 6)]))

\* the loop over the candidates from index i on: the topics appended and the
\* candidates as the loop leaves them
RECURSIVE ValidateLoop(_, _, _)
ValidateLoopStopsAtTheFirstDrop(topics, i, validated_topics) ==
    IF i > Len(topics) THEN [validated_topics |-> validated_topics, topics |-> topics]
    ELSE LET one == ValidateTopic(topics[i])
         IN  IF one.kept
             THEN ValidateLoop([topics EXCEPT ![i] = one.topic], i + 1,
                               Append(validated_topics, one.cleaned))
             ELSE [validated_topics |-> validated_topics,
                   topics |-> [topics EXCEPT ![i] = one.topic]]

ValidateLoop(topics, i, validated_topics) ==
    IF i > Len(topics) THEN [validated_topics |-> validated_topics, topics |-> topics]
    ELSE LET one == ValidateTopic(topics[i])
         IN  ValidateLoop([topics EXCEPT ![i] = one.topic], i + 1,
                          IF one.kept THEN Append(validated_topics, one.cleaned)
                          ELSE validated_topics)

\* The float 0.7 is the double 6305039478318694 / 2^53.  Its 53 bits are held
\* in three limbs of 20 bits, the lowest first, and a product with an integer
\* likewise, so that the arithmetic stays within the integers of the checker.
LimbBase == 2^20

SeventyPercent == <<419430, 419430, 5734>>

RECURSIVE BitLength(_)
BitLength(n) == IF n = 0 THEN 0 ELSE 1 + BitLength(n \div 2)

\* expected_count * 0.7: the exact product rounded to the nearest double,
\* halves to even, as limbs of the numerator over 2^53
TimesSeventyPercent(n) ==
    LET c0 == n * SeventyPercent[1]
        c1 == n * SeventyPercent[2] + (c0 \div LimbBase)
        p0 == c0 % LimbBase
        p1 == c1 % LimbBase
        p2 == n * SeventyPercent[3] + (c1 \div LimbBase)
        \* the bits of the product beyond the 53 a double keeps
        unit == 2^(BitLength(p2) - 13)
        rest == p0 % unit
        up == \/ 2 * rest > unit
              \/ 2 * rest = unit /\ (p0 \div unit) % 2 = 1
        r0 == p0 - rest + (IF up THEN unit ELSE 0)
        r1 == p1 + (IF r0 = LimbBase THEN 1 ELSE 0)
        r2 == p2 + (IF r1 = LimbBase THEN 1 ELSE 0)
    IN  IF n = 0 THEN <<0, 0, 0>> ELSE <<r0 % LimbBase, r1 % LimbBase, r2>>

\* count < product, of an integer and a double: Python compares them exactly
IntLessThanFloat(count, product) ==
    LET whole == product[3] \div 2^13
        fraction == product[3] % 2^13 # 0 \/ product[2] # 0 \/ product[1] # 0
    IN  count < whole \/ (count = whole /\ fraction)

TooFewTopics == [kind |-> "ValueError", msg |-> "Too few valid topics generated"]

\* _validate_topics(topics, expected_count): the error raised or the list
\* returned, and the candidates as the call leaves them
ValidateTopicsRaisesAtThreshold(topics, expected_count) ==
    LET loop == ValidateLoop(topics, 1, <<>>)
        count == Len(loop.validated_topics)
        product == TimesSeventyPercent(expected_count)
    IN  IF \/ IntLessThanFloat(count, product)
           \/ product = <<0, 0, count * 2^13>>
        THEN [error |-> TooFewTopics, value |-> PyNone, topics |-> loop.topics]
        ELSE [error |-> NoError, value |-> PyList(loop.validated_topics),
              topics |-> loop.topics]

ValidateTopics(topics, expected_count) ==
    LET loop == ValidateLoop(topics, 1, <<>>)
    IN  IF IntLessThanFloat(Len(loop.validated_topics),
                            TimesSeventyPercent(expected_count))
        THEN [error |-> TooFewTopics, value |-> PyNone, topics |-> loop.topics]
        ELSE [error |-> NoError, value |-> PyList(loop.validated_topics),
              topics |-> loop.topics]

-----------------------------------------------------------------------------
(* Candidate records *)

\* the longest list of arbitrary candidates that is validated
MaxLen == 2

\* "aaaaaaaaaa": ten characters, the shortest title that is accepted
Title == PyStr(Repeat("a", 10))

\* a candidate that needs no correction
GoodTopic ==
    [title |-> Title,
     category |-> PyStr("system_design"),
     difficulty |-> PyStr("senior"),
     description |-> PyStr(<<" ", "d", " ">>),
     keyPoints |-> PyList(<<PyStr(<<"k", " ">>), PyInt(12)>>),
     duration |-> PyInt(45),
     technologies |-> PyList(<<PyStr(<<"t">>)>>)]

\* GoodTopic with one field changed
TopicWith(field, value) == PyDict(DictSet(GoodTopic, field, value))

\* one candidate for each way a field can be off, and candidates that are
\* no dictionaries at all
Candidates ==
    {PyDict(GoodTopic)}
    \cup { TopicWith("title", value) :
             value \in {PyStr(Repeat("a", 9)),
                        PyStr(<<" ">> \o Repeat("a", 8) \o <<" ">>),
                        PyInt(1234567890)} }
    \cup { TopicWith("category", value) :
             value \in {PyStr("frontend"), PyList(<<>>)} }
    \cup { TopicWith("difficulty", value) : value \in {PyStr("expert")} }
    \cup { TopicWith("keyPoints", value) :
             value \in {PyList(<<>>), PyStr(<<"k">>),
                        PyList(Repeat(PyStr(<<"k">>), 6))} }
    \cup { TopicWith("duration", value) :
             value \in {PyInt(14), PyInt(15), PyInt(120), PyInt(121),
                        PyStr(<<"4", "5">>), PyFloat(457), PyNaN, PyBool(TRUE)} }
    \cup { TopicWith("technologies", value) :
             value \in {PyNone, PyList(Repeat(PyInt(7), 7))} }
    \cup { TopicWith("description", value) :
             value \in {PyStr(<<" ", " ">>), PyNone} }
    \cup { PyDict(DictDel(GoodTopic, required_fields[i])) :
             i \in 1..Len(required_fields) }
    \cup {PyStr(<<"t", "o", "p", "i", "c">>), PyNone}

RECURSIVE ListsOf(_, _)
ListsOf(S, n) ==
    IF n = 0 THEN {<<>>}
    ELSE LET shorter == ListsOf(S, n - 1)
         IN  shorter \cup { Append(l, x) : l \in { l \in shorter : Len(l) = n - 1 },
                                           x \in S }

-----------------------------------------------------------------------------
(* The validator called on its own *)

\* self._validate_topics(candidates, requested)
CallValidateTopics ==
    /\ valRet = PyNone
    /\ valRet' = ValidateTopics(candidates, requested)
    /\ UNCHANGED <<storeVars, factoryVars, agent, llm, candidates, requested, agentRet,
                   rawText, parseRet>>

\* an agent and a list of candidates to validate
InitValidate ==
    /\ backend = "mongo"
    /\ mongoDocs = <<>>
    /\ mongoIndex = NoIndexes
    /\ clock = 0
    /\ fireDocs = <<>>
    /\ fbApps = [c \in Procs |-> FALSE]
    /\ client = [c \in Procs |-> NewClient]
    /\ everConnected = [c \in Procs |-> FALSE]
    /\ ret = [c \in Procs |-> NoCall]
    /\ insPc = [c \in Procs |-> "idle"]
    /\ insDoc = [c \in Procs |-> PyNone]
    /\ agent = NewAgent
    /\ llm = <<>>
    /\ candidates \in ListsOf(Candidates, MaxLen)
    /\ requested \in 0..(MaxLen + 1)
    /\ agentRet = PyNone
    /\ valRet = PyNone
    /\ rawText = <<>>
    /\ parseRet = PyNone
    /\ env = <<>>
    /\ facRet = PyNone

NextValidate == CallValidateTopics

SpecValidate == InitValidate /\ [][NextValidate]_vars

-----------------------------------------------------------------------------
(* InterviewTopicsAgent: the generation call and its answer *)

\* The text of an answer is a sequence of tokens: a bracket, a blank, a word
\* of prose, or the JSON text of one value (commas are left out).
Ch(c) == [ch |-> c]
Json(value) == [ch |-> "json", v |-> value]

Blank == {Ch(" "), Ch("\n")}

\* response.strip()
StripText(text) ==
    LET keep == { i \in 1..Len(text) : text[i] \notin Blank }
    IN  IF keep = {} THEN <<>> ELSE SubSeq(text, FirstIndex(keep), LastIndex(keep))

\* What one call of self.model.generate_content does:
\*   "raise"    it raises
\*   "empty"    it returns no response, or one whose text is empty
\*   "blank"    it returns a text of blanks only
\*   "array"    it returns the JSON array of the candidates and nothing else
\*   "prose"    it returns the JSON array of the candidates inside prose
\*   "noarray"  it returns prose without any array
Failures == {"raise", "empty"}
Answers == {"blank", "array", "prose", "noarray"}

JsonArray(values) ==
    <<Ch("[")>> \o [i \in 1..Len(values) |-> Json(values[i])] \o <<Ch("]")>>

ResponseText(kind, values) ==
    CASE kind = "blank" -> <<Ch(" "), Ch("\n")>>
      [] kind = "array" -> <<Ch("\n")>> \o JsonArray(values) \o <<Ch("\n")>>
      [] kind = "prose" -> <<Ch("w"), Ch(" ")>> \o JsonArray(values) \o <<Ch(" "), Ch("w")>>
      [] kind = "noarray" -> <<Ch("w"), Ch(" "), Ch("w")>>

\* the error the i-th call of generate_content raises
ApiError(i) == [kind |-> "GoogleAPIError", call |-> i]

EmptyModelResponse == [kind |-> "ValueError", msg |-> "Empty response from model"]

\* the i-th call of self.model.generate_content; a call beyond the script raises
GenerateContent(script, values, i) ==
    LET kind == IF i <= Len(script) THEN script[i] ELSE "raise"
    IN  IF kind = "raise" THEN [error |-> ApiError(i), text |-> PyNone]
        ELSE IF kind = "empty" THEN [error |-> NoError, text |-> <<>>]
        ELSE [error |-> NoError, text |-> ResponseText(kind, values)]

\* the default of the parameter max_retries
max_retries == 3

\* _generate_with_retry from the given attempt on (attempts count from 0):
\* the error raised or the text returned, the calls of generate_content made
\* and the seconds slept, in order
RECURSIVE GenerateWithRetry(_, _, _, _)
GenerateWithRetrySleepsBeforeRaising(script, values, attempt, slept) ==
    LET response == GenerateContent(script, values, attempt + 1)
        e == IF response.error # NoError THEN response.error ELSE EmptyModelResponse
    IN  IF attempt >= max_retries
        THEN [error |-> NoError, value |-> PyNone, calls |-> attempt, slept |-> slept]
        ELSE IF response.error = NoError /\ response.text # <<>>
        THEN [error |-> NoError, value |-> StripText(response.text),
              calls |-> attempt + 1, slept |-> slept]
        ELSE IF attempt = max_retries - 1
        THEN [error |-> e, value |-> PyNone, calls |-> attempt + 1,
              slept |-> Append(slept, 2^attempt)]
        ELSE GenerateWithRetry(script, values, attempt + 1, Append(slept, 2^attempt))

GenerateWithRetry(script, values, attempt, slept) ==
    LET response == GenerateContent(script, values, attempt + 1)
        e == IF response.error # NoError THEN response.error ELSE EmptyModelResponse
    IN  IF attempt >= max_retries
        THEN \* the loop ends without a return: None
             [error |-> NoError, value |-> PyNone, calls |-> attempt, slept |-> slept]
        ELSE IF response.error = NoError /\ response.text # <<>>
        THEN [error |-> NoError, value |-> StripText(response.text),
              calls |-> attempt + 1, slept |-> slept]
        ELSE IF attempt = max_retries - 1
        THEN [error |-> e, value |-> PyNone, calls |-> attempt + 1, slept |-> slept]
        ELSE GenerateWithRetry(script, values, attempt + 1, Append(slept, 2^attempt))

\* json.loads from position i on, inside an array whose "[" has been read:
\* whether the array is well formed, its value, and the position after its "]"
RECURSIVE JsonElements(_, _, _)
JsonElements(text, i, elements) ==
    IF i > Len(text) THEN [ok |-> FALSE]
    ELSE IF text[i] \in Blank THEN JsonElements(text, i + 1, elements)
    ELSE IF text[i] = Ch("]")
    THEN [ok |-> TRUE, value |-> PyList(elements), next |-> i + 1]
    ELSE IF text[i] = Ch("[")
    THEN LET inner == JsonElements(text, i + 1, <<>>)
         IN  IF inner.ok
             THEN JsonElements(text, inner.next, Append(elements, inner.value))
             ELSE [ok |-> FALSE]
    ELSE IF text[i].ch = "json"
    THEN JsonElements(text, i + 1, Append(elements, text[i].v))
    ELSE [ok |-> FALSE]

\* json.loads(text) of a text that starts with "[": nothing but blanks may
\* follow the array
JsonLoads(text) ==
    LET array == JsonElements(text, 2, <<>>)
    IN  IF array.ok /\ \A i \in array.next..Len(text) : text[i] \in Blank
        THEN [ok |-> TRUE, value |-> array.value]
        ELSE [ok |-> FALSE]

NoJsonArray == [kind |-> "ValueError", msg |-> "No JSON array found in response"]
JsonParseFailed == [kind |-> "ValueError", msg |-> "Failed to parse JSON response"]

\* _parse_response(response): the error raised or the list returned
ParseResponse(response) ==
    LET text == StripText(response)
        opens == { i \in 1..Len(text) : text[i] = Ch("[") }
        \* re.search(r'\[[\s\S]*\]'): from the first "[" that has a "]" after
        \* it to the last "]" of the text
        closes == { j \in 1..Len(text) : text[j] = Ch("]") /\ \E i \in opens : i < j }
        whole == text # <<>> /\ text[1] = Ch("[") /\ text[Len(text)] = Ch("]")
        found == IF whole THEN text
                 ELSE SubSeq(text, FirstIndex(opens), LastIndex(closes))
    IN  IF ~whole /\ closes = {} THEN [error |-> NoJsonArray, value |-> PyNone]
        ELSE IF ~JsonLoads(found).ok THEN [error |-> JsonParseFailed, value |-> PyNone]
        ELSE [error |-> NoError, value |-> JsonLoads(found).value]

NotInitialized ==
    [kind |-> "ValueError", msg |-> "Agent not initialized. Call initialize() first."]
EmptyGeminiResponse == [kind |-> "ValueError", msg |-> "Empty response from Gemini"]

\* the outcome of a call of the agent: the error raised or the value
\* returned, the calls of generate_content made, the seconds slept in order,
\* and what _generate_with_retry gave
AgentOutcome(op, error, value, retry) ==
    [op |-> op, error |-> error, value |-> value, retry |-> retry]

NoRetry == [error |-> NoError, value |-> PyNone, calls |-> 0, slept |-> <<>>]

\* generate_topics asking the model again when the answer cannot be used
GenerateTopicsAsksAgain(ag, script, values, num_topics) ==
    LET retry == GenerateWithRetry(script, values, 0, <<>>)
        parsed == ParseResponse(retry.value)
        validated == ValidateTopics(parsed.value.v, num_topics)
        again == GenerateWithRetry(script, values, retry.calls, retry.slept)
        out(error, value, r) == AgentOutcome("generate_topics", error, value, r)
    IN  IF ~ag.initialized THEN out(NotInitialized, PyNone, NoRetry)
        ELSE IF retry.error # NoError THEN out(retry.error, PyNone, retry)
        ELSE IF retry.value = <<>> THEN out(EmptyGeminiResponse, PyNone, retry)
        ELSE IF parsed.error # NoError
        THEN out(IF again.error # NoError THEN again.error ELSE parsed.error, PyNone, again)
        ELSE IF validated.error # NoError
        THEN out(IF again.error # NoError THEN again.error ELSE validated.error, PyNone, again)
        ELSE out(NoError, validated.value, retry)

\* generate_topics(num_topics): every exception is logged and raised again
GenerateTopics(ag, script, values, num_topics) ==
    LET retry == GenerateWithRetry(script, values, 0, <<>>)
        parsed == ParseResponse(retry.value)
        validated == ValidateTopics(parsed.value.v, num_topics)
        out(error, value, r) == AgentOutcome("generate_topics", error, value, r)
    IN  IF ~ag.initialized THEN out(NotInitialized, PyNone, NoRetry)
        ELSE IF retry.error # NoError THEN out(retry.error, PyNone, retry)
        ELSE IF retry.value = <<>> THEN out(EmptyGeminiResponse, PyNone, retry)
        ELSE IF parsed.error # NoError THEN out(parsed.error, PyNone, retry)
        ELSE IF validated.error # NoError THEN out(validated.error, PyNone, retry)
        ELSE out(NoError, validated.value, retry)

-----------------------------------------------------------------------------
(* The agent and its caller *)

\* the most topics that are asked for
MaxCount == 10

\* the most candidates of one kind in an answer
MaxRepeat == 7

\* what the calls of generate_content do during one generate_topics: one more
\* call than the code makes is scripted; nothing is scripted after an answer
Scripts ==
    { script \in [1..(max_retries + 1) -> Failures \cup Answers] :
        \A i, j \in 1..(max_retries + 1) :
            (i < j /\ script[i] \in Answers) => script[j] = "raise" }

\* answers of some good candidates followed by some that are dropped
Answered ==
    { Repeat(PyDict(GoodTopic), good) \o Repeat(TopicWith("title", PyInt(1234567890)), bad) :
        good \in 0..MaxRepeat, bad \in 0..1 }

\* initialize with self.initialized = True as the first statement of its try
InitializeSetsTheFlagFirst ==
    /\ \E ok \in BOOLEAN :
        /\ agent' = IF ok THEN [initialized |-> TRUE, model |-> PyStr("gemini-pro")]
                    ELSE [agent EXCEPT !.initialized = TRUE]
        /\ agentRet' = AgentOutcome("initialize",
                                    IF ok THEN NoError
                                    ELSE [kind |-> "Exception", msg |-> "initialize"],
                                    PyNone, NoRetry)
    /\ UNCHANGED <<storeVars, factoryVars, llm, candidates, requested, valRet, rawText, parseRet>>

\* await agent.initialize(): vertexai.init or GenerativeModel may raise, and
\* then nothing is assigned
Initialize ==
    /\ \E ok \in BOOLEAN :
        /\ agent' = IF ok THEN [initialized |-> TRUE, model |-> PyStr("gemini-pro")]
                    ELSE agent
        /\ agentRet' = AgentOutcome("initialize",
                                    IF ok THEN NoError
                                    ELSE [kind |-> "Exception", msg |-> "initialize"],
                                    PyNone, NoRetry)
    /\ UNCHANGED <<storeVars, factoryVars, llm, candidates, requested, valRet, rawText, parseRet>>

\* await agent.generate_topics(requested)
CallGenerateTopics ==
    /\ agentRet' = GenerateTopics(agent, llm, candidates, requested)
    /\ UNCHANGED <<storeVars, factoryVars, agent, llm, candidates, requested, valRet, rawText, parseRet>>

\* await agent.cleanup()
Cleanup ==
    /\ agent' = [initialized |-> FALSE, model |-> PyNone]
    /\ agentRet' = AgentOutcome("cleanup", NoError, PyNone, NoRetry)
    /\ UNCHANGED <<storeVars, factoryVars, llm, candidates, requested, valRet, rawText, parseRet>>

\* an agent as constructed, an answer the model will give and a request
InitAgent ==
    /\ backend = "mongo"
    /\ mongoDocs = <<>>
    /\ mongoIndex = NoIndexes
    /\ clock = 0
    /\ fireDocs = <<>>
    /\ fbApps = [c \in Procs |-> FALSE]
    /\ client = [c \in Procs |-> NewClient]
    /\ everConnected = [c \in Procs |-> FALSE]
    /\ ret = [c \in Procs |-> NoCall]
    /\ insPc = [c \in Procs |-> "idle"]
    /\ insDoc = [c \in Procs |-> PyNone]
    /\ agent = NewAgent
    /\ llm \in Scripts
    /\ candidates \in Answered
    /\ requested \in 0..MaxCount
    /\ agentRet = PyNone
    /\ valRet = PyNone
    /\ rawText = <<>>
    /\ parseRet = PyNone
    /\ env = <<>>
    /\ facRet = PyNone

NextAgent ==
    \/ Initialize
    \/ CallGenerateTopics
    \/ Cleanup
    \/ CallValidateTopics

SpecAgent == InitAgent /\ [][NextAgent]_vars

-----------------------------------------------------------------------------
(* Claims about the validator and the generation call *)

\* the topics the last direct call of _validate_topics returned
Returned ==
    IF valRet # PyNone /\ valRet.error = NoError THEN valRet.value.v ELSE <<>>

\* the shape of a validated topic
WellFormed(topic) ==
    /\ topic.t = "dict"
    /\ LET d == topic.v
       IN  /\ d["title"].t = "str" /\ Len(Strip(d["title"].v)) >= 10
           /\ d["category"].t = "str" /\ d["category"].v \in categories
           /\ d["difficulty"].t = "str" /\ d["difficulty"].v \in difficulty_levels
           /\ d["keyPoints"].t = "list"
           /\ Len(d["keyPoints"].v) >= 1 /\ Len(d["keyPoints"].v) <= 5
           /\ d["technologies"].t = "list" /\ Len(d["technologies"].v) <= 6
           /\ d["duration"].t = "int"
           /\ d["duration"].v >= 15 /\ d["duration"].v <= 120

\* C3: every topic _validate_topics returns has a title whose trimmed length
\* is at least 10, a category among the 8 tags, a difficulty among the 4
\* tags, between 1 and 5 keyPoints, at most 6 technologies and an integer
\* duration within [15, 120].
C3_SurvivorsWellFormed ==
    \A i \in 1..Len(Returned) : WellFormed(Returned[i])

\* the candidates that survive, whatever the count asked for
Survivors == ValidateLoop(candidates, 1, <<>>).validated_topics

\* generate_topics got as far as validating the parsed answer
Validated ==
    /\ agentRet # PyNone
    /\ agentRet.op = "generate_topics"
    /\ agentRet.retry.calls > 0
    /\ agentRet.retry.error = NoError
    /\ llm[agentRet.retry.calls] \in {"array", "prose"}

\* C4: with s survivors and n topics asked for, _validate_topics raises the
\* insufficient-yield error exactly when 10 * s < 7 * n and returns the s
\* survivors otherwise; generate_topics raises the same error then and
\* returns no list, and no failed generate_topics returns a list.
C4_InsufficientYield ==
    LET few == 10 * Len(Survivors) < 7 * requested
    IN  /\ valRet # PyNone =>
              IF few THEN valRet.error = TooFewTopics /\ valRet.value = PyNone
              ELSE valRet.error = NoError /\ valRet.value = PyList(Survivors)
        /\ Validated =>
              IF few THEN agentRet.error = TooFewTopics /\ agentRet.value = PyNone
              ELSE agentRet.error = NoError /\ agentRet.value = PyList(Survivors)
        /\ (agentRet # PyNone /\ agentRet.error # NoError) => agentRet.value = PyNone

\* six survivors of ten asked for: the validator and generate_topics raised
C4_Witness ==
    /\ requested = 10
    /\ Len(Survivors) = 6
    /\ valRet # PyNone /\ valRet.error = TooFewTopics
    /\ Validated /\ agentRet.error = TooFewTopics

\* generate_topics got as far as calling _generate_with_retry
Retried ==
    /\ agentRet # PyNone
    /\ agentRet.op = "generate_topics"
    /\ agentRet.error # NotInitialized

\* the error of the i-th call of generate_content, when it fails
AttemptError(i) == IF llm[i] = "raise" THEN ApiError(i) ELSE EmptyModelResponse

\* what _generate_with_retry does when it stops after at most `most` calls:
\* it stops at the first answer, has slept 1, 2, 4, ... seconds between the
\* calls and not after the last, returns the answer or raises the last error
RetriesUpTo(most) ==
    LET r == agentRet.retry
        answered == { i \in 1..most : llm[i] \in Answers }
        last == IF answered = {} THEN most ELSE FirstIndex(answered)
    IN  /\ r.calls = last
        /\ r.slept = [i \in 1..(last - 1) |-> 2^(i - 1)]
        /\ IF answered = {} THEN r.error = AttemptError(last)
           ELSE /\ r.error = NoError
                /\ r.value = StripText(ResponseText(llm[last], candidates))

\* C9 as stated: the call is retried up to 3 times, after sleeps of 1 s, 2 s
\* and 4 s, with no sleep after the final failed attempt; the first answer is
\* returned without further calls and the last error is raised otherwise.
C9_ThreeRetries == Retried => RetriesUpTo(4)

\* C9: at most 3 calls are made (2 retries), after sleeps of 1 s and 2 s,
\* with no sleep after the final failed attempt; the first answer is returned
\* trimmed without further calls, and the error of the third call is raised
\* when all three fail.
C9_ThreeAttempts == Retried => RetriesUpTo(3)

\* three failed calls: the third error is raised after sleeps of 1 s and 2 s
C9_Witness ==
    /\ Retried
    /\ llm[1] = "empty" /\ llm[2] = "raise" /\ llm[3] = "raise"
    /\ agentRet.error = ApiError(3)
    /\ agentRet.retry.slept = <<1, 2>>

\* C20: one generate_topics invokes the model at most max_retries (3) times
\* and only inside _generate_with_retry: it stops at the first answer, an
\* answer that cannot be parsed or that yields too few valid topics brings no
\* further invocation, and every failure reaches the caller as the error that
\* was raised (the last attempt's error, the parser's, the validator's), with
\* no list returned.
C20_RetriesConfined ==
    Retried =>
        LET r == agentRet.retry
            answered == { i \in 1..max_retries : llm[i] \in Answers }
            first == FirstIndex(answered)
            few == 10 * Len(Survivors) < 7 * requested
        IN  /\ r.calls <= max_retries
            /\ agentRet.error # NoError => agentRet.value = PyNone
            /\ IF answered = {}
               THEN r.calls = max_retries /\ agentRet.error = AttemptError(max_retries)
               ELSE /\ r.calls = first
                    /\ llm[first] = "blank" => agentRet.error = EmptyGeminiResponse
                    /\ llm[first] = "noarray" => agentRet.error = NoJsonArray
                    /\ llm[first] \in {"array", "prose"} =>
                          IF few THEN agentRet.error = TooFewTopics
                          ELSE agentRet.error = NoError /\ agentRet.value = PyList(Survivors)

\* after one failed call the model answered with prose that holds no array:
\* the parser's error reached the caller after two invocations
C20_Witness ==
    /\ Retried
    /\ llm[1] = "raise" /\ llm[2] = "noarray"
    /\ agentRet.retry.calls = 2
    /\ agentRet.error = NoJsonArray
    /\ agentRet.value = PyNone

-----------------------------------------------------------------------------
(* DatabaseFactory *)

\* The value of an environment variable is a sequence of one-character
\* strings; the names of the variables are TLA+ strings.
LowerLetters ==
    <<"a", "b", "c", "d", "e", "f", "g", "h", "i", "j", "k", "l", "m",
      "n", "o", "p", "q", "r", "s", "t", "u", "v", "w", "x", "y", "z">>

UpperLetters ==
    <<"A", "B", "C", "D", "E", "F", "G", "H", "I", "J", "K", "L", "M",
      "N", "O", "P", "Q", "R", "S", "T", "U", "V", "W", "X", "Y", "Z">>

\* s.upper()
Upper(s) ==
    [i \in 1..Len(s) |->
        IF \E k \in 1..26 : LowerLetters[k] = s[i]
        THEN UpperLetters[CHOOSE k \in 1..26 : LowerLetters[k] = s[i]]
        ELSE s[i]]

MONGO == <<"M", "O", "N", "G", "O">>
FIREBASE == <<"F", "I", "R", "E", "B", "A", "S", "E">>

\* os.getenv(name, default)
Getenv(environ, name, default) ==
    IF name \in DOMAIN environ THEN PyStr(environ[name]) ELSE default

\* `not value`, of what os.getenv returned
Unset(value) == value = PyNone \/ value.v = <<>>

\* an error of the factory: the text of its message, the values the message
\* interpolates, and the names of variables the message spells out
FactoryError(kind, text, args, names) ==
    [kind |-> kind, text |-> text, args |-> args, names |-> names]

\* the outcome of a call of the factory: the error raised or the value
\* returned, the class create_client went on to construct, and the lines
\* written with logger.error
FactoryOutcome(op, error, value, selected, logged) ==
    [op |-> op, error |-> error, value |-> value, selected |-> selected,
     logged |-> logged]

\* _create_mongodb_client(); imports: the import of the client module succeeds
CreateMongodbClient(environ, imports) ==
    LET mongodb_uri == Getenv(environ, "MONGODB_URI", PyNone)
        out(error, value) == FactoryOutcome("create_client", error, value, "mongo", <<>>)
    IN  IF ~imports
        THEN out(FactoryError("ImportError", "MongoDB dependencies not available",
                              <<>>, {}), PyNone)
        ELSE IF Unset(mongodb_uri)
        THEN out(FactoryError("ValueError",
                              "environment variable is required for MongoDB provider",
                              <<>>, {"MONGODB_URI"}), PyNone)
        ELSE out(NoError, [class |-> "mongo", args |-> <<mongodb_uri>>])

\* _create_firebase_client()
CreateFirebaseClient(environ, imports) ==
    LET project == Getenv(environ, "GOOGLE_CLOUD_PROJECT", PyNone)
        firebase_credentials == Getenv(environ, "GOOGLE_APPLICATION_CREDENTIALS_JSON", PyNone)
        out(error, value) == FactoryOutcome("create_client", error, value, "firebase", <<>>)
    IN  IF ~imports
        THEN out(FactoryError("ImportError", "Firebase dependencies not available",
                              <<>>, {}), PyNone)
        ELSE IF Unset(project)
        THEN out(FactoryError("ValueError",
                              "environment variable is required for Firebase provider",
                              <<>>, {"GOOGLE_CLOUD_PROJECT"}), PyNone)
        ELSE out(NoError, [class |-> "firebase", args |-> <<project, firebase_credentials>>])

UnsupportedProvider(provider) ==
    FactoryError("ValueError", "Unsupported database provider", <<provider>>, {})

\* get_provider_name()
GetProviderName(environ) == Upper(Getenv(environ, "DATABASE_PROVIDER", PyStr(MONGO)).v)

\* create_client()
CreateClientFallsBackToMongo(environ, imports) ==
    LET provider == GetProviderName(environ)
    IN  IF provider = FIREBASE THEN CreateFirebaseClient(environ, imports)
        ELSE CreateMongodbClient(environ, imports)

CreateClient(environ, imports) ==
    LET provider == Upper(Getenv(environ, "DATABASE_PROVIDER", PyStr(MONGO)).v)
    IN  IF provider = MONGO THEN CreateMongodbClient(environ, imports)
        ELSE IF provider = FIREBASE THEN CreateFirebaseClient(environ, imports)
        ELSE FactoryOutcome("create_client", UnsupportedProvider(provider), PyNone,
                            "none", <<>>)

\* the keys of required_vars, in order
RequiredVars(provider) ==
    IF provider = MONGO THEN <<"MONGODB_URI">> ELSE <<"GOOGLE_CLOUD_PROJECT">>

\* validate_provider_config(): the names of the missing variables are written
\* to the log; the message of the error interpolates the provider only
ValidateProviderConfig(environ) ==
    LET provider == GetProviderName(environ)
        required_vars == RequiredVars(provider)
        missing_vars ==
            SelectSeq(required_vars, LAMBDA var : Unset(Getenv(environ, var, PyNone)))
        present == { required_vars[i] : i \in 1..Len(required_vars) }
                       \ { missing_vars[i] : i \in 1..Len(missing_vars) }
        env_vars == [var \in present |-> PyStr(environ[var])]
        out(error, value, logged) ==
            FactoryOutcome("validate_provider_config", error, value, "none", logged)
    IN  IF provider # MONGO /\ provider # FIREBASE
        THEN out(UnsupportedProvider(provider), PyNone, <<>>)
        ELSE IF missing_vars # <<>>
        THEN out(FactoryError("ValueError", "Required environment variables not set",
                              <<provider>>, {}),
                 PyNone, missing_vars)
        ELSE out(NoError, PyDict(env_vars), <<>>)

-----------------------------------------------------------------------------
(* The factory and its caller *)

\* the values DATABASE_PROVIDER is given
ProviderValues ==
    {<<>>, <<"m", "o", "n", "g", "o">>, <<"M", "o", "n", "g", "o">>, MONGO,
     <<"f", "i", "r", "e", "b", "a", "s", "e">>, FIREBASE,
     <<"s", "q", "l">>, <<"m", "o", "n", "g", "o", " ">>}

\* the values the other variables are given: empty or not
OtherValues == {<<>>, <<"x">>}

EnvNames ==
    {"DATABASE_PROVIDER", "MONGODB_URI", "GOOGLE_CLOUD_PROJECT",
     "GOOGLE_APPLICATION_CREDENTIALS_JSON"}

Environments ==
    UNION { [names -> ProviderValues \cup OtherValues] : names \in SUBSET EnvNames }

\* client = DatabaseFactory.create_client(): the caller's first client is the
\* object constructed, when one is
CallCreateClient ==
    /\ \E imports \in BOOLEAN :
        LET r == CreateClient(env, imports)
        IN  /\ facRet' = r
            /\ IF r.error = NoError
               THEN /\ backend' = r.value.class
                    /\ client' = [client EXCEPT ![1] = NewClient]
                    /\ everConnected' = [everConnected EXCEPT ![1] = FALSE]
                    /\ ret' = [ret EXCEPT ![1] = NoCall]
               ELSE UNCHANGED <<backend, client, everConnected, ret>>
    /\ UNCHANGED <<agentVars, env, mongoDocs, mongoIndex, clock, fireDocs, fbApps,
                   insPc, insDoc>>

\* DatabaseFactory.validate_provider_config()
CallValidateProviderConfig ==
    /\ facRet' = ValidateProviderConfig(env)
    /\ UNCHANGED <<storeVars, agentVars, env>>

\* an environment, and no client yet
InitFactory ==
    /\ backend = "none"
    /\ mongoDocs = <<>>
    /\ mongoIndex = NoIndexes
    /\ clock = 0
    /\ fireDocs = <<>>
    /\ fbApps = [c \in Procs |-> FALSE]
    /\ client = [c \in Procs |-> NewClient]
    /\ everConnected = [c \in Procs |-> FALSE]
    /\ ret = [c \in Procs |-> NoCall]
    /\ insPc = [c \in Procs |-> "idle"]
    /\ insDoc = [c \in Procs |-> PyNone]
    /\ agent = NewAgent
    /\ llm = <<>>
    /\ candidates = <<>>
    /\ requested = 0
    /\ agentRet = PyNone
    /\ valRet = PyNone
    /\ rawText = <<>>
    /\ parseRet = PyNone
    /\ env \in { e \in Environments :
                   \A name \in DOMAIN e :
                       e[name] \in (IF name = "DATABASE_PROVIDER" THEN ProviderValues
                                    ELSE OtherValues) }
    /\ facRet = PyNone

NextFactory ==
    \/ CallCreateClient
    \/ CallValidateProviderConfig
    \/ Connect(1)

SpecFactory == InitFactory /\ [][NextFactory]_vars

-----------------------------------------------------------------------------
(* Claims about the factory *)

\* two values that differ in the case of their letters at most
SameIgnoringCase(a, b) ==
    /\ Len(a) = Len(b)
    /\ \A i \in 1..Len(a) :
          \/ a[i] = b[i]
          \/ \E k \in 1..26 : {a[i], b[i]} = {LowerLetters[k], UpperLetters[k]}

\* DATABASE_PROVIDER is set to something other than MONGO or FIREBASE
ProviderUnrecognized ==
    /\ "DATABASE_PROVIDER" \in DOMAIN env
    /\ ~SameIgnoringCase(env["DATABASE_PROVIDER"], MONGO)
    /\ ~SameIgnoringCase(env["DATABASE_PROVIDER"], FIREBASE)

\* C11: create_client with a DATABASE_PROVIDER that is neither MONGO nor
\* FIREBASE, whatever the case of its letters, raises the unsupported-provider
\* error that names the value, constructs no client and leaves every client
\* and store as it was (no connection is attempted); with the variable unset
\* it goes on to construct the MongoDB client.
C11_UnsupportedProvider ==
    [][(facRet' # facRet /\ facRet'.op = "create_client") =>
          /\ ProviderUnrecognized =>
                /\ facRet'.error # NoError
                /\ facRet'.error.kind = "ValueError"
                /\ facRet'.error.text = "Unsupported database provider"
                /\ Len(facRet'.error.args) = 1
                /\ SameIgnoringCase(facRet'.error.args[1], env["DATABASE_PROVIDER"])
                /\ facRet'.value = PyNone
                /\ facRet'.selected = "none"
                /\ UNCHANGED storeVars
          /\ "DATABASE_PROVIDER" \notin DOMAIN env =>
                /\ facRet'.selected = "mongo"
                /\ facRet'.error = NoError =>
                      facRet'.value.class = "mongo" /\ backend' = "mongo"]_vars

\* create_client was called with DATABASE_PROVIDER=sql and raised
C11_Witness ==
    /\ "DATABASE_PROVIDER" \in DOMAIN env
    /\ env["DATABASE_PROVIDER"] = <<"s", "q", "l">>
    /\ facRet # PyNone
    /\ facRet.op = "create_client"
    /\ facRet.error = UnsupportedProvider(<<"S", "Q", "L">>)

\* the names of the variables the selected backend requires
RequiredNames ==
    LET provider == IF "DATABASE_PROVIDER" \in DOMAIN env
                    THEN env["DATABASE_PROVIDER"] ELSE MONGO
    IN  IF SameIgnoringCase(provider, MONGO) THEN {"MONGODB_URI"}
        ELSE IF SameIgnoringCase(provider, FIREBASE) THEN {"GOOGLE_CLOUD_PROJECT"}
        ELSE {}

\* those of them the environment lacks: unset or empty
MissingNames ==
    { name \in RequiredNames : name \notin DOMAIN env \/ env[name] = <<>> }

\* C12: validate_provider_config raises one error whose content lists the
\* name of every missing required variable when some are missing, and returns
\* the mapping of exactly the required names to their values when none is.
C12_MissingConfigurationListed ==
    (facRet # PyNone /\ facRet.op = "validate_provider_config" /\ ~ProviderUnrecognized) =>
        IF MissingNames # {}
        THEN /\ facRet.error # NoError
             /\ MissingNames \subseteq facRet.error.names
        ELSE /\ facRet.error = NoError
             /\ facRet.value.t = "dict"
             /\ DOMAIN facRet.value.v = RequiredNames
             /\ \A name \in DOMAIN facRet.value.v : facRet.value.v[name] = PyStr(env[name])

-----------------------------------------------------------------------------
(* Claims about the statistics *)

\* the stored documents of the backend in use
StoredDocs == IF backend = "mongo" THEN mongoDocs ELSE FirestoreList(fireDocs, 1)

\* every stored topic, as the pair of its document and its place in it
StoredTopics(docs) ==
    { <<i, j>> \in (1..Len(docs)) \X (1..3) : j <= Len(docs[i]["topics"].v) }

\* how many stored topics carry the tag in the field
Carrying(docs, field, tag) ==
    Cardinality({ p \in StoredTopics(docs) : docs[p[1]]["topics"].v[p[2]][field] = tag })

\* the sum of the counts of a distribution over some of its tags
RECURSIVE SumOver(_, _)
SumOver(dist, tags) ==
    IF tags = {} THEN 0
    ELSE LET tag == CHOOSE tag \in tags : TRUE
         IN  dist[tag] + SumOver(dist, tags \ {tag})

\* the statistics of a list of documents, as C13 states them
StatsOf(docs, stats) ==
    /\ stats.totalDocuments = Len(docs)
    /\ stats.totalTopics = Cardinality(StoredTopics(docs))
    /\ IF docs = <<>> THEN stats.lastGeneration = PyNone
       ELSE /\ stats.lastGeneration # PyNone
            /\ \E i \in 1..Len(docs) : docs[i]["generatedAt"] = stats.lastGeneration.v
            /\ \A i \in 1..Len(docs) : docs[i]["generatedAt"] <= stats.lastGeneration.v
    /\ \A field \in {"category", "difficulty"} :
          LET dist == IF field = "category" THEN stats.categoriesDistribution
                      ELSE stats.difficultiesDistribution
          IN  /\ DOMAIN dist = { tag \in Categories \cup Difficulties :
                                   Carrying(docs, field, tag) > 0 }
              /\ \A tag \in DOMAIN dist : dist[tag] = Carrying(docs, field, tag)
              /\ SumOver(dist, DOMAIN dist) = stats.totalTopics

Connected == [handle |-> "client", connected |-> TRUE]

\* the stored documents as the contents of a Firestore collection
SameContents ==
    [r \in { StoredDocs[i]["runId"] : i \in 1..Len(StoredDocs) } |->
        StoredDocs[CHOOSE i \in 1..Len(StoredDocs) : StoredDocs[i]["runId"] = r]]

\* C13: get_stats of a connected client returns the number of stored
\* documents, the number of their topics, the greatest generatedAt and, for
\* category and difficulty, the number of stored topics carrying each tag
\* (summing to the number of topics); on an empty store it returns zeros, no
\* lastGeneration and empty distributions, not an error; and the two backends
\* return the same for the same documents.
C13_Stats ==
    /\ \A c \in Procs :
          (ret[c].op = "get_stats" /\ client[c].connected) =>
              /\ ret[c].error = NoError
              /\ StatsOf(StoredDocs, ret[c].value.v)
    /\ MongoGetStats(Connected, FirestoreList(SameContents, 1)).value
         = FirebaseGetStats(Connected, SameContents).value

\* get_stats returned for two stored documents with three topics, the
\* document listed first being the one generated last
C13_Witness ==
    /\ ret[1].op = "get_stats" /\ ret[1].error = NoError
    /\ Len(StoredDocs) = 2
    /\ ret[1].value.v.totalTopics = 3
    /\ StoredDocs[1]["generatedAt"] > StoredDocs[2]["generatedAt"]

-----------------------------------------------------------------------------
(* More claims about the validator *)

\* C14: validating the topics _validate_topics returned once more accepts
\* every one of them and returns them unchanged in every field.
C14_FixedPoint ==
    ValidateLoop(Returned, 1, <<>>).validated_topics = Returned

\* a candidate with all seven fields that passes the four rejection checks
\* (title, category, difficulty, keyPoints) and whose description is text
PassesTheChecks(topic) ==
    /\ topic.t = "dict"
    /\ \A i \in 1..Len(required_fields) : required_fields[i] \in DOMAIN topic.v
    /\ topic.v["title"].t = "str" /\ Len(Strip(topic.v["title"].v)) >= 10
    /\ topic.v["category"].t = "str" /\ topic.v["category"].v \in categories
    /\ topic.v["difficulty"].t = "str" /\ topic.v["difficulty"].v \in difficulty_levels
    /\ topic.v["keyPoints"].t = "list" /\ Len(topic.v["keyPoints"].v) > 0
    /\ topic.v["description"].t = "str"

\* the duration is an integer or a float within [15, 120]
DurationInRange(value) ==
    \/ value.t = "int" /\ value.v >= 15 /\ value.v <= 120
    \/ value.t = "float" /\ value.v >= 150 /\ value.v <= 1200

\* C15: a candidate that has all seven fields and passes the four rejection
\* checks is among the survivors whatever its duration and technologies are:
\* with duration 30 when its duration is no number within [15, 120], and with
\* no technologies when its technologies is no list.
C15_CorrectedNotDropped ==
    (valRet # PyNone /\ valRet.error = NoError) =>
        \A i \in 1..Len(candidates) :
            PassesTheChecks(candidates[i]) =>
                \E j \in 1..Len(Returned) :
                    /\ Returned[j].v["title"].v = Strip(candidates[i].v["title"].v)
                    /\ ~DurationInRange(candidates[i].v["duration"]) =>
                           Returned[j].v["duration"] = PyInt(30)
                    /\ candidates[i].v["technologies"].t # "list" =>
                           Returned[j].v["technologies"] = PyList(<<>>)

\* C16: every topic _validate_topics returns has a description that is text
\* and is not empty.
C16_DescriptionNotEmpty ==
    \A i \in 1..Len(Returned) :
        /\ Returned[i].v["description"].t = "str"
        /\ Returned[i].v["description"].v # <<>>
        /\ Returned[i].v["description"].v = Strip(Returned[i].v["description"].v)

\* what _validate_topics keeps of the candidate alone
Alone(topic) == ValidateLoop(<<topic>>, 1, <<>>).validated_topics

\* the survivors of each candidate alone, one after the other
RECURSIVE EachAlone(_)
EachAlone(topics) ==
    IF topics = <<>> THEN <<>> ELSE Alone(Head(topics)) \o EachAlone(Tail(topics))

\* the candidate is no dictionary or lacks one of the seven fields
LacksAField(topic) ==
    \/ topic.t # "dict"
    \/ \E i \in 1..Len(required_fields) : required_fields[i] \notin DOMAIN topic.v

\* C18: the only error _validate_topics raises is the insufficient-yield
\* error; a candidate that lacks one of the seven fields is dropped, and what
\* is returned for a list is what is kept of each candidate alone, in order.
C18_Independent ==
    valRet # PyNone =>
        /\ valRet.error \in {NoError, TooFewTopics}
        /\ \A i \in 1..Len(candidates) : LacksAField(candidates[i]) => Alone(candidates[i]) = <<>>
        /\ valRet.error = NoError => Returned = EachAlone(candidates)
        /\ valRet.error = TooFewTopics => 10 * Len(EachAlone(candidates)) < 7 * requested

\* a candidate without technologies was dropped and the one after it kept
C18_Witness ==
    /\ valRet # PyNone /\ valRet.error = NoError
    /\ Len(candidates) = 2
    /\ candidates[1] = PyDict(DictDel(GoodTopic, "technologies"))
    /\ candidates[2] = PyDict(GoodTopic)
    /\ Len(Returned) = 1

-----------------------------------------------------------------------------
(* More claims about the storage clients *)

\* C17: the document a successful insert_topics_document stores carries the
\* _metadata block of the storage layer (insertedAt the time of the insert,
\* version '1.0.0', source 'github-adk-agent'), whatever _metadata the caller
\* had put into the document.
C17_MetadataStamped ==
    [][\A c \in Procs :
          (/\ ret'[c] # ret[c]
           /\ ret'[c].op = "insert_topics_document"
           /\ ret'[c].error = NoError) =>
              LET run == ret'[c].arg["runId"]
                  after == IF backend' = "mongo"
                           THEN { mongoDocs'[i] :
                                    i \in { j \in 1..Len(mongoDocs') :
                                               mongoDocs'[j]["runId"] = run } }
                           ELSE IF run \in DOMAIN fireDocs' THEN { fireDocs'[run] } ELSE {}
                  new == after \ StoredUnder(run)
              IN  /\ new # {}
                  /\ \A d \in new :
                        /\ "_metadata" \in DOMAIN d
                        /\ d["_metadata"] = [insertedAt |-> clock, version |-> "1.0.0",
                                             source |-> "github-adk-agent"]]_vars

\* an insert succeeded on a document that came with a _metadata of the caller
C17_Witness ==
    /\ InsertSucceeded(1)
    /\ "_metadata" \in DOMAIN ret[1].arg
    /\ ret[1].arg["_metadata"] = CallerMetadata
    /\ \A d \in StoredUnder(ret[1].arg["runId"]) : d["_metadata"] # CallerMetadata

-----------------------------------------------------------------------------
(* The parser called on its own *)

\* the most tokens of a response text
MaxText == 5

\* what a response is made of: brackets, a word of prose, a blank, a JSON value
Tokens == {Ch("["), Ch("]"), Ch("w"), Ch(" "), Json(PyInt(1))}

Texts == UNION { [1..n -> Tokens] : n \in 0..MaxText }

\* self._parse_response(response)
CallParseResponse ==
    /\ parseRet = PyNone
    /\ parseRet' = ParseResponse(rawText)
    /\ UNCHANGED <<storeVars, factoryVars, agent, llm, candidates, requested, agentRet,
                   valRet, rawText>>

\* an agent and a response text to parse
InitParse ==
    /\ backend = "mongo"
    /\ mongoDocs = <<>>
    /\ mongoIndex = NoIndexes
    /\ clock = 0
    /\ fireDocs = <<>>
    /\ fbApps = [c \in Procs |-> FALSE]
    /\ client = [c \in Procs |-> NewClient]
    /\ everConnected = [c \in Procs |-> FALSE]
    /\ ret = [c \in Procs |-> NoCall]
    /\ insPc = [c \in Procs |-> "idle"]
    /\ insDoc = [c \in Procs |-> PyNone]
    /\ agent = NewAgent
    /\ llm = <<>>
    /\ candidates = <<>>
    /\ requested = 0
    /\ agentRet = PyNone
    /\ valRet = PyNone
    /\ rawText \in Texts
    /\ parseRet = PyNone
    /\ env = <<>>
    /\ facRet = PyNone

NextParse == CallParseResponse

SpecParse == InitParse /\ [][NextParse]_vars

\* the positions of the text where a well-formed JSON array starts
ArrayStarts(text) ==
    { i \in 1..Len(text) : text[i] = Ch("[") /\ JsonElements(text, i + 1, <<>>).ok }

\* C19: _parse_response returns the elements of the first well-formed [...]
\* array of the response text, also when the prose around it holds other "["
\* or "]" characters, and raises the malformed-output error when the text
\* holds no well-formed array.
C19_FirstWellFormedArray ==
    parseRet # PyNone =>
        IF ArrayStarts(rawText) # {}
        THEN /\ parseRet.error = NoError
             /\ parseRet.value =
                    JsonElements(rawText, FirstIndex(ArrayStarts(rawText)) + 1, <<>>).value
        ELSE /\ parseRet.error \in {NoJsonArray, JsonParseFailed}
             /\ parseRet.value = PyNone

-----------------------------------------------------------------------------
(* Claims about the life cycle of a storage client *)

\* C21: once close() has returned on a connected instance, the instance is
\* disconnected: its connected flag is False and each data operation called
\* next fails with the not-connected error and leaves the store alone, also
\* when the driver's close or delete_app raised inside close().
C21_ClosedIsDisconnected ==
    [][\A c \in Procs :
          /\ (ret'[c] # ret[c] /\ ret'[c].op = "close" /\ client[c].connected) =>
                ~client'[c].connected
          /\ (ret[c].op = "close" /\ ret'[c] # ret[c] /\ ret'[c].op \in DataOps) =>
                /\ ret'[c].error = NotConnected
                /\ ~ret'[c].touched]_vars

\* C22: whenever connect() raises, the instance is not connected afterwards:
\* its connected flag is False and each data operation called next fails with
\* the not-connected error, also when an earlier connect() had connected the
\* instance.
C22_FailedConnectIsDisconnected ==
    [][\A c \in Procs :
          /\ (ret'[c] # ret[c] /\ ret'[c].op = "connect" /\ ret'[c].error # NoError) =>
                ~client'[c].connected
          /\ (ret[c].op = "connect" /\ ret[c].error # NoError
                /\ ret'[c] # ret[c] /\ ret'[c].op \in DataOps) =>
                /\ ret'[c].error = NotConnected
                /\ ~ret'[c].touched]_vars

\* C22 on instances that no connect() had connected before
C22_FirstConnect ==
    [][\A c \in Procs :
          (~everConnected[c] /\ ret'[c] # ret[c] /\ ret'[c].op = "connect"
             /\ ret'[c].error # NoError) =>
                ~client'[c].connected]_vars

\* C23: a failed insert_topics_document (not connected, invalid document or
\* duplicate runId) leaves the caller's document object as it was passed: no
\* _metadata or other field is added or replaced.
C23_FailedInsertLeavesDocument ==
    \A c \in Procs :
        (ret[c].op = "insert_topics_document" /\ ret[c].error # NoError) =>
            ret[c].doc = PyDoc(ret[c].arg)

\* C23 for the failures that come before the document is stamped
C23_RefusedBeforeStamp ==
    \A c \in Procs :
        (ret[c].op = "insert_topics_document" /\ ret[c].error # NoError
           /\ ret[c].error.msg # "Run ID already exists") =>
            ret[c].doc = PyDoc(ret[c].arg)

-----------------------------------------------------------------------------
(* Claims about the life cycle of the agent *)

=============================================================================
